---- MODULE Spec2Model ----
(***************************************************************************)
(* Seating placement and identifier generation engine of                   *)
(* seat-allocation-sys (algo/algo.py, class SeatingAlgorithm), as a state  *)
(* machine: the constructor arguments are chosen in Init, generate_seating *)
(* runs one seat per step, and may be called a second time on the same     *)
(* instance.                                                               *)
(*                                                                         *)
(* Python None is written 0 for a batch, -1 for a block and the string     *)
(* "None" for a paper set, an identifier or a colour.  A grid cell that    *)
(* still holds None is NoSeat.  Python lists are 0-based: position (r, c)  *)
(* of seating_plan is seating_plan[r + 1][c + 1] here.                     *)
(***************************************************************************)
EXTENDS Integers, Sequences, FiniteSets, TLC

VARIABLES cfg, pc, run, seating_plan, current_row, col, row, roll,
          batch_limits, batch_allocated, batch_queues, next_roll, prev_plan,
          validation, web_data

\* the stored classroom and the conversion of its block layout
\* (api/blueprints/classrooms.py)
VARIABLES classroom, cpc, result_structure, remaining

\* the tables of the database the services share, and the calls in progress
VARIABLES allocation_sessions, uploads, allocations, allocation_history,
          history_table, calls

engine_vars == <<cfg, pc, run, seating_plan, current_row, col, row, roll,
                 batch_limits, batch_allocated, batch_queues, next_roll, prev_plan,
                 validation, web_data>>

classroom_vars == <<classroom, cpc, result_structure, remaining>>

db_vars == <<allocation_sessions, uploads, allocations, allocation_history,
             history_table>>

\* the state of the services around the engine
service_vars == <<classroom_vars, db_vars, calls>>

vars == <<engine_vars, service_vars>>

(***************************************************************************)
(* Bounds of the model.                                                    *)
(***************************************************************************)
MaxSeats == 4
MaxBatches == 2
MaxBroken == 1
MaxCount == 2
MaxRuns == 2
MaxCols == 3
MaxStudents == 3
MaxSteps == 2
MaxSessions == 3
MaxCallers == 2

(***************************************************************************)
(* Small helpers.                                                          *)
(***************************************************************************)
Max(a, b) == IF a >= b THEN a ELSE b
Min(a, b) == IF a <= b THEN a ELSE b

\* dict.get(key, default)
Get(dict, key, default) == IF key \in DOMAIN dict THEN dict[key] ELSE default

EmptyDict == [k \in {} |-> 0]

RECURSIVE SumSeq(_)
SumSeq(s) == IF s = <<>> THEN 0 ELSE Head(s) + SumSeq(Tail(s))

None == "None"
NoBatch == 0
NoBlock == -1

SeatTransposed(r, c, batch, paper_set, block, roll_number, is_broken, color) ==
    [row |-> c, col |-> r, batch |-> batch, paper_set |-> paper_set,
     block |-> block, roll_number |-> roll_number, is_broken |-> is_broken,
     color |-> color]

\* class Seat
Seat(r, c, batch, paper_set, block, roll_number, is_broken, color) ==
    [row |-> r, col |-> c, batch |-> batch, paper_set |-> paper_set,
     block |-> block, roll_number |-> roll_number, is_broken |-> is_broken,
     color |-> color]

NoSeat == Seat(-1, -1, NoBatch, None, NoBlock, None, FALSE, None)

DEFAULT_BATCH_COLORS ==
    (1 :> "#DBEAFE") @@ (2 :> "#DCFCE7") @@ (3 :> "#FEE2E2") @@
    (4 :> "#FEF3C7") @@ (5 :> "#E9D5FF")

(***************************************************************************)
(* Identifier templates.  A template is the sequence of its parts: a       *)
(* literal text, or one of the fields {prefix}, {year}, {serial}.  An      *)
(* example identifier of start_rolls is the sequence of its characters.    *)
(***************************************************************************)
NoYear == -1

Digits == {"0", "1", "2", "3", "4", "5", "6", "7", "8", "9"}

DigitVal ==
    ("0" :> 0) @@ ("1" :> 1) @@ ("2" :> 2) @@ ("3" :> 3) @@ ("4" :> 4) @@
    ("5" :> 5) @@ ("6" :> 6) @@ ("7" :> 7) @@ ("8" :> 8) @@ ("9" :> 9)

\* "".join(chars)
RECURSIVE Join(_)
Join(chars) == IF chars = <<>> THEN "" ELSE Head(chars) \o Join(Tail(chars))

\* len(m.group(1)) for re.search(r"(\d+)$", s): the longest run of digits
\* that ends the string (0 when there is no match)
RECURSIVE TrailingDigitCount(_)
TrailingDigitCount(chars) ==
    IF chars = <<>> \/ chars[Len(chars)] \notin Digits THEN 0
    ELSE 1 + TrailingDigitCount(SubSeq(chars, 1, Len(chars) - 1))

\* int(serial_digits)
RECURSIVE IntOf(_)
IntOf(chars) ==
    IF chars = <<>> THEN 0
    ELSE 10 * IntOf(SubSeq(chars, 1, Len(chars) - 1)) + DigitVal[chars[Len(chars)]]

\* str.zfill(width)
RECURSIVE zfill(_, _)
zfill(s, width) == IF Len(s) >= width THEN s ELSE zfill("0" \o s, width)

\* str(serial_val).zfill(self.serial_width) if self.serial_width else str(serial_val)
SerialStr(serial_val, serial_width) ==
    IF serial_width # 0 THEN zfill(ToString(serial_val), serial_width)
    ELSE ToString(serial_val)

\* batch_template.format(prefix=prefix, year=self.year or '', serial=serial_str)
RECURSIVE Format(_, _, _, _)
Format(template, prefix, year, serial_str) ==
    IF template = <<>> THEN ""
    ELSE LET part == Head(template)
             text == CASE part = "{prefix}" -> prefix
                       [] part = "{year}" -> (IF year = NoYear \/ year = 0 THEN ""
                                               ELSE ToString(year))
                       [] part = "{serial}" -> serial_str
                       [] OTHER -> part
         IN  text \o Format(Tail(template), prefix, year, serial_str)

(***************************************************************************)
(* SeatingAlgorithm.__init__: the fields derived from the arguments.       *)
(***************************************************************************)
\* self.block_width = max(1, block_width)
self_block_width(c) == Max(1, c.block_width)

\* the start_rolls entries whose string ends in digits (if m:)
TemplatedBatches(c) ==
    {b \in DOMAIN c.start_rolls : TrailingDigitCount(c.start_rolls[b]) > 0}

\* self.batch_templates[b] = prefix_part + '{serial}'
self_batch_templates(c) ==
    [b \in TemplatedBatches(c) |->
        LET s == c.start_rolls[b]
            n == TrailingDigitCount(s)
        IN  <<Join(SubSeq(s, 1, Len(s) - n)), "{serial}">>]

\* if b not in self.start_serials: self.start_serials[b] = serial_val
self_start_serials(c) ==
    [b \in DOMAIN c.start_serials \cup TemplatedBatches(c) |->
        IF b \in DOMAIN c.start_serials THEN c.start_serials[b]
        ELSE LET s == c.start_rolls[b]
                 n == TrailingDigitCount(s)
             IN  IntOf(SubSeq(s, Len(s) - n + 1, Len(s)))]

\* self.serial_width = max(0, serial_width), widened to the longest digit
\* run of start_rolls when serial_width == 0
RECURSIVE WidestDigits(_, _)
WidestDigits(c, bs) ==
    IF bs = {} THEN 0
    ELSE LET b == CHOOSE x \in bs : TRUE
         IN  Max(TrailingDigitCount(c.start_rolls[b]), WidestDigits(c, bs \ {b}))

self_serial_width(c) ==
    IF c.serial_width = 0
    THEN Max(Max(0, c.serial_width), WidestDigits(c, TemplatedBatches(c)))
    ELSE Max(0, c.serial_width)

\* self.batch_colors[b] = self.DEFAULT_BATCH_COLORS.get(b, "#E5E7EB")
self_batch_colors(c) ==
    [b \in 1..c.num_batches |-> Get(DEFAULT_BATCH_COLORS, b, "#E5E7EB")]

(***************************************************************************)
(* Block topology.  algo.py knows uniform blocks only (col // block_width, *)
(* col % block_width); an explicit block_structure is resolved as the      *)
(* specification describes it.  block_structure = <<>> stands for None.    *)
(***************************************************************************)
\* w_0 + ... + w_(i-1)
BlockStart(structure, i) == SumSeq(SubSeq(structure, 1, i))

StructureBlockIndexClosed(structure, c) ==
    IF \E i \in 0..(Len(structure) - 1) :
           BlockStart(structure, i) < c /\ c <= BlockStart(structure, i + 1)
    THEN CHOOSE i \in 0..(Len(structure) - 1) :
           BlockStart(structure, i) < c /\ c <= BlockStart(structure, i + 1)
    ELSE Len(structure)

\* the block index of a column under an explicit block_structure
StructureBlockIndex(structure, c) ==
    IF \E i \in 0..(Len(structure) - 1) :
           BlockStart(structure, i) <= c /\ c < BlockStart(structure, i + 1)
    THEN CHOOSE i \in 0..(Len(structure) - 1) :
           BlockStart(structure, i) <= c /\ c < BlockStart(structure, i + 1)
    ELSE Len(structure)

\* block = col // self.block_width
UniformBlockIndex(c, column) == column \div self_block_width(c)

\* col_in_block = col % self.block_width
UniformColInBlock(c, column) == column % self_block_width(c)

_get_block_index(c, column) ==
    IF c.block_structure # <<>> THEN StructureBlockIndex(c.block_structure, column)
    ELSE UniformBlockIndex(c, column)

_get_col_in_block(c, column) ==
    IF c.block_structure # <<>>
    THEN column - BlockStart(c.block_structure,
                             StructureBlockIndex(c.block_structure, column))
    ELSE UniformColInBlock(c, column)

(***************************************************************************)
(* SeatingAlgorithm._calculate_paper_set and _calculate_batch              *)
(***************************************************************************)
CheckerboardByRow(r, col_in_block) == IF r % 2 = 0 THEN "A" ELSE "B"

Checkerboard(r, col_in_block) ==
    IF r % 2 = 0
    THEN (IF col_in_block % 2 = 0 THEN "A" ELSE "B")
    ELSE (IF col_in_block % 2 = 0 THEN "B" ELSE "A")

_calculate_paper_set_absolute(c, r, column) == Checkerboard(r, column)

_calculate_paper_set(c, r, column) == Checkerboard(r, _get_col_in_block(c, column))

_calculate_batch_by_column(c, r, column) ==
    IF c.num_batches <= 1 THEN 1 ELSE (column % c.num_batches) + 1

_calculate_batch(c, r, column) ==
    IF c.num_batches <= 1 THEN 1 ELSE ((r + column) % c.num_batches) + 1

(***************************************************************************)
(* generate_seating, column-major: quotas and identifier queues            *)
(***************************************************************************)
\* cols_per_batch[i] * self.rows, for batch b = i + 1
batch_sizes(c, b) ==
    LET base_cols == c.cols \div c.num_batches
        rem_cols == c.cols % c.num_batches
    IN  (base_cols + (IF b - 1 < rem_cols THEN 1 ELSE 0)) * c.rows

\* batch_limits[b]
BatchLimit(c, b) ==
    IF b \in DOMAIN c.batch_student_counts THEN c.batch_student_counts[b]
    ELSE batch_sizes(c, b)

\* effective_template (<<>> stands for None)
effective_template(c) ==
    IF c.roll_template # <<>> THEN c.roll_template
    ELSE IF DOMAIN c.batch_prefixes # {} /\ c.year # NoYear
         THEN <<"{prefix}", "{year}", "O", "{serial}">>
         ELSE <<>>

\* self.batch_templates.get(b, effective_template)
batch_template(c, b) == Get(self_batch_templates(c), b, effective_template(c))

HasRosterIgnored(c, b) == FALSE

\* the batch draws from a caller-supplied list of identifiers
HasRoster(c, b) == b \in DOMAIN c.batch_roll_numbers

\* rolls = [str(next_roll + j) for j in range(size)]
NumericRolls(nr, size) == [j \in 1..size |-> ToString(nr + (j - 1))]

\* the per_batch list: serial_val = s + j for j in range(size)
PerBatchStart(c, b) == Get(self_start_serials(c), b, c.start_serial)

PerBatchRolls(c, b, size) ==
    [j \in 1..size |->
        Format(batch_template(c, b), Get(c.batch_prefixes, b, ""), c.year,
               SerialStr(PerBatchStart(c, b) + (j - 1), self_serial_width(c)))]

\* the loop "for i, size in enumerate(batch_sizes)", from batch b on:
\* the queues built and the value next_roll ends with
RECURSIVE BuildQueues(_, _, _, _)
BuildQueues(c, b, nr, queues) ==
    IF b > c.num_batches THEN [queues |-> queues, next_roll |-> nr]
    ELSE LET size == batch_sizes(c, b)
         IN  IF HasRoster(c, b)
             THEN BuildQueues(c, b + 1, nr, queues @@ (b :> c.batch_roll_numbers[b]))
             ELSE IF batch_template(c, b) = <<>>
             THEN BuildQueues(c, b + 1, nr + size, queues @@ (b :> NumericRolls(nr, size)))
             ELSE IF c.serial_mode = "per_batch"
             THEN BuildQueues(c, b + 1, nr + size, queues @@ (b :> PerBatchRolls(c, b, size)))
             ELSE BuildQueues(c, b + 1, nr, queues @@ (b :> <<>>))

StaleNextRoll(c) == IF run = 0 THEN c.start_serial ELSE next_roll

\* next_roll = self.start_serial
InitialNextRoll(c) == c.start_serial

\* batch_colors.get(b, "#E5E7EB")
BatchColor(c, b) == Get(self_batch_colors(c), b, "#E5E7EB")

IsGapColumnAbsolute(c, column) ==
    /\ c.num_batches = 1
    /\ ~c.allow_adjacent_same_batch
    /\ column % 2 = 1

\* Single-batch gap rule: with one batch and adjacency not allowed, the
\* columns at an odd offset within their block receive no batch.
IsGapColumn(c, column) ==
    /\ c.num_batches = 1
    /\ ~c.allow_adjacent_same_batch
    /\ _get_col_in_block(c, column) % 2 = 1

ColumnBatchPaired(c, column) == ((column \div 2) % c.num_batches) + 1

\* b = (col % self.num_batches) + 1
ColumnBatch(c, column) == (column % c.num_batches) + 1

\* self.seating_plan[row][col] = seat
SetSeat(plan, r, column, seat) ==
    [plan EXCEPT ![r + 1] = [@ EXCEPT ![column + 1] = seat]]

(***************************************************************************)
(* The configurations the engine is constructed with.                      *)
(***************************************************************************)
Cells(rows, cols) == (0..(rows - 1)) \X (0..(cols - 1))

\* the structure a uniform width yields: width repeated, last block narrower
RECURSIVE UniformStructure(_, _)
UniformStructure(cols, width) ==
    IF cols <= 0 THEN <<>>
    ELSE <<Min(cols, width)>> \o UniformStructure(cols - width, width)

\* explicit structures of positive widths summing to cols that no uniform
\* width yields
VariableStructures(cols) ==
    {s \in UNION {[1..k -> 1..cols] : k \in 1..cols} :
        /\ SumSeq(s) = cols
        /\ s # UniformStructure(cols, s[1])}

Layouts(cols) ==
    {[block_width |-> w, block_structure |-> <<>>] : w \in 1..cols}
    \cup {[block_width |-> s[1], block_structure |-> s] : s \in VariableStructures(cols)}

\* batch_student_counts: a limit for some of the batches
CountDicts(n) == UNION {[S -> 0..MaxCount] : S \in SUBSET (1..n)}

PlainIds ==
    [roll_template |-> <<>>, batch_prefixes |-> EmptyDict, year |-> NoYear,
     start_serial |-> 1001, start_serials |-> EmptyDict, start_rolls |-> EmptyDict,
     serial_width |-> 4, serial_mode |-> "per_batch",
     batch_roll_numbers |-> EmptyDict]

IdConfigs ==
    { PlainIds,
      [PlainIds EXCEPT !.roll_template = <<"{prefix}", "{year}", "O", "{serial}">>,
                       !.batch_prefixes = (1 :> "BTCS") @@ (2 :> "BTCD"),
                       !.year = 24],
      [PlainIds EXCEPT !.roll_template = <<"R", "{serial}">>],
      [PlainIds EXCEPT !.roll_template = <<"R", "{serial}">>,
                       !.serial_mode = "global", !.start_serial = 8, !.serial_width = 0],
      [PlainIds EXCEPT !.batch_prefixes = (1 :> "BTCS"), !.year = 24,
                       !.start_serials = (2 :> 2001)],
      [PlainIds EXCEPT !.start_rolls = (1 :> <<"A", "0", "9">>), !.serial_width = 0],
      [PlainIds EXCEPT !.start_rolls = (1 :> <<"A", "0", "9">>) @@ (2 :> <<"B", "5">>),
                       !.serial_width = 0],
      [PlainIds EXCEPT !.start_rolls = (1 :> <<"A", "0", "9">>), !.serial_width = 0,
                       !.serial_mode = "global", !.start_serial = 8],
      [PlainIds EXCEPT !.batch_roll_numbers = (1 :> <<"E001", "E002">>) @@ (2 :> <<"E003">>)] }

\* broken_seats: at most MaxBroken cells of the grid
BrokenSets(rows, cols) ==
    {S \in SUBSET Cells(rows, cols) : Cardinality(S) <= MaxBroken}

\* allow_adjacent_same_batch only acts on a single batch filled by column;
\* the row-major branch reads no identifier option
AdjChoices(n, byc) == IF n = 1 /\ byc THEN BOOLEAN ELSE {FALSE}
IdChoices(byc) == IF byc THEN IdConfigs ELSE {PlainIds}

MakeConfig(r, c, n, lay, byc, bs, cnt, adj, ids) ==
    [rows |-> r, cols |-> c, num_batches |-> n,
     block_width |-> lay.block_width, block_structure |-> lay.block_structure,
     batch_by_column |-> byc, broken_seats |-> bs, batch_student_counts |-> cnt,
     allow_adjacent_same_batch |-> adj] @@ ids

\* block_width: int = 3
DefaultBlockWidth == 3

DefaultLayout == [block_width |-> DefaultBlockWidth, block_structure |-> <<>>]

\* one batch per column, every other argument left at its default
OneBatchPerColumnConfigs ==
    {MakeConfig(rc[1], rc[2], rc[2], DefaultLayout, TRUE, {}, EmptyDict, FALSE,
                PlainIds) :
        rc \in {x \in (1..MaxSeats) \X (1..MaxSeats) : x[1] * x[2] <= MaxSeats}}

\* no batch, or a grid without rows or without columns
DegenerateConfigs ==
    {MakeConfig(r, c, n, DefaultLayout, byc, {}, EmptyDict, FALSE, PlainIds) :
        r \in 0..1, c \in 0..2, n \in 0..MaxBatches, byc \in BOOLEAN}
    \ {MakeConfig(r, c, n, DefaultLayout, byc, {}, EmptyDict, FALSE, PlainIds) :
        r \in 1..1, c \in 1..2, n \in 1..MaxBatches, byc \in BOOLEAN}

\* explicit structures of positive widths whose sum is not cols
MalformedStructures(cols) ==
    {s \in UNION {[1..k -> 1..(cols + 1)] : k \in 1..cols} :
        SumSeq(s) # cols /\ SumSeq(s) <= cols + 1}

MalformedConfigs ==
    {MakeConfig(r, 2, MaxBatches, [block_width |-> s[1], block_structure |-> s],
                byc, {}, cnt, FALSE, PlainIds) :
        r \in 1..2, s \in MalformedStructures(2), byc \in BOOLEAN,
        cnt \in {EmptyDict, [b \in 1..MaxBatches |-> MaxCount]}}

\* broken_seats naming a coordinate outside the grid, alone or next to a
\* seat of the grid
OutsideBrokenConfigs ==
    {MakeConfig(rc[1], rc[2], n, DefaultLayout, byc, bs, EmptyDict, FALSE, PlainIds) :
        rc \in {x \in (1..2) \X (1..2) : x[1] * x[2] <= 2},
        n \in 1..MaxBatches, byc \in BOOLEAN,
        bs \in {{<<2, 0>>}, {<<0, 2>>}, {<<0, 0>>, <<2, 2>>}}}

\* nothing validated or reported yet
NoValidation == [entry |-> "none", enforce |-> FALSE, is_valid |-> TRUE, errors |-> <<>>]

\* no classroom stored, no request in progress
NoClassroom == [cols |-> 0, block_width |-> 0, block_structure |-> <<>>]

ClassroomIdle ==
    /\ classroom = NoClassroom
    /\ cpc = "empty"
    /\ result_structure = <<>>
    /\ remaining = 0

\* no row in any table
DatabaseEmpty ==
    /\ allocation_sessions = <<>>
    /\ uploads = <<>>
    /\ allocations = <<>>
    /\ allocation_history = <<>>
    /\ history_table = FALSE

\* the services take no step while an engine runs
ServiceIdle == ClassroomIdle /\ DatabaseEmpty /\ calls = <<>>

(***************************************************************************)
(* Init: an engine has been constructed, generate_seating not yet called.  *)
(***************************************************************************)
Init ==
    /\ \/ \E r \in 1..MaxSeats, c \in 1..MaxSeats, n \in 1..MaxBatches, byc \in BOOLEAN :
            /\ r * c <= MaxSeats
            /\ \E lay \in Layouts(c), bs \in BrokenSets(r, c), cnt \in CountDicts(n),
                  adj \in AdjChoices(n, byc), ids \in IdChoices(byc) :
                 cfg = MakeConfig(r, c, n, lay, byc, bs, cnt, adj, ids)
       \/ cfg \in OneBatchPerColumnConfigs
       \/ cfg \in DegenerateConfigs
       \/ cfg \in MalformedConfigs
       \/ cfg \in OutsideBrokenConfigs
    /\ ServiceIdle
    /\ validation = NoValidation
    /\ web_data = <<>>
    /\ pc = "init"
    /\ run = 0
    /\ seating_plan = <<>>
    /\ current_row = <<>>
    /\ col = 0
    /\ row = 0
    /\ roll = 0
    /\ batch_limits = EmptyDict
    /\ batch_allocated = EmptyDict
    /\ batch_queues = EmptyDict
    /\ next_roll = 0
    /\ prev_plan = <<>>

(***************************************************************************)
(* generate_seating: entry.  A call on a finished instance is a second run *)
(* of the same engine; prev_plan keeps the grid the previous run returned. *)
(***************************************************************************)
CanCall == pc = "init" \/ (pc = "done" /\ run < MaxRuns)

\* the grid has a first seat to visit
HasSeats == cfg.rows > 0 /\ cfg.cols > 0

\* base_cols = self.cols // self.num_batches raises ZeroDivisionError
BeginColumnMajorRaises ==
    /\ CanCall
    /\ cfg.batch_by_column
    /\ cfg.num_batches = 0
    /\ seating_plan' = <<>>
    /\ pc' = "raised"
    /\ UNCHANGED <<cfg, run, current_row, col, row, roll, batch_limits,
                   batch_allocated, batch_queues, next_roll, prev_plan, validation, web_data,
                   service_vars>>

BeginColumnMajor ==
    /\ CanCall
    /\ cfg.batch_by_column
    /\ cfg.num_batches # 0
    /\ prev_plan' = seating_plan
    /\ run' = run + 1
    /\ batch_limits' = [b \in 1..cfg.num_batches |-> BatchLimit(cfg, b)]
    /\ batch_allocated' = [b \in 1..cfg.num_batches |-> 0]
    /\ LET built == BuildQueues(cfg, 1, InitialNextRoll(cfg), EmptyDict)
       IN  /\ batch_queues' = built.queues
           /\ next_roll' = built.next_roll
    /\ seating_plan' = [r \in 1..cfg.rows |-> [c \in 1..cfg.cols |-> NoSeat]]
    /\ col' = 0
    /\ row' = 0
    /\ pc' = IF HasSeats THEN "fill_cols" ELSE "done"
    /\ UNCHANGED <<cfg, current_row, roll, validation, web_data,
                   service_vars>>

BeginRowMajor ==
    /\ CanCall
    /\ ~cfg.batch_by_column
    /\ prev_plan' = seating_plan
    /\ run' = run + 1
    /\ seating_plan' = IF HasSeats THEN <<>> ELSE [r \in 1..cfg.rows |-> <<>>]
    /\ current_row' = <<>>
    /\ roll' = 1
    /\ col' = 0
    /\ row' = 0
    /\ pc' = IF HasSeats THEN "fill_rows" ELSE "done"
    /\ UNCHANGED <<cfg, batch_limits, batch_allocated, batch_queues, next_roll,
                   validation, web_data,
                   service_vars>>

(***************************************************************************)
(* generate_seating, column-major loop: one seat per step                  *)
(***************************************************************************)
\* for col in range(self.cols): for row in range(self.rows): ... return
AdvanceColumnMajor ==
    IF row + 1 < cfg.rows
    THEN /\ row' = row + 1
         /\ col' = col
         /\ pc' = pc
    ELSE /\ row' = 0
         /\ col' = col + 1
         /\ pc' = IF col + 1 < cfg.cols THEN pc ELSE "done"

AtColumnSeat == pc = "fill_cols" /\ col < cfg.cols /\ row < cfg.rows

IsBrokenTransposed == <<col, row>> \in cfg.broken_seats

\* if (row, col) in self.broken_seats
IsBroken == <<row, col>> \in cfg.broken_seats

LimitExceeded ==
    batch_allocated[ColumnBatch(cfg, col)] > batch_limits[ColumnBatch(cfg, col)]

\* if batch_allocated[b] >= batch_limits[b]
LimitReached ==
    batch_allocated[ColumnBatch(cfg, col)] >= batch_limits[ColumnBatch(cfg, col)]

UsesGlobalSerial(c, b) ==
    ~HasRoster(c, b) /\ batch_template(c, b) # <<>> /\ c.serial_mode = "global"

UnallocatedSeat(b) ==
    Seat(row, col, b, _calculate_paper_set(cfg, row, col),
         _get_block_index(cfg, col), None, FALSE, "#F3F4F6")

AllocatedSeat(b, rn) ==
    Seat(row, col, b, _calculate_paper_set(cfg, row, col),
         _get_block_index(cfg, col), rn, FALSE, BatchColor(cfg, b))

BrokenSeat == Seat(row, col, NoBatch, None, NoBlock, None, TRUE, "#FF0000")

PlaceBrokenConsumesSerial ==
    /\ AtColumnSeat
    /\ IsBroken
    /\ seating_plan' = SetSeat(seating_plan, row, col, BrokenSeat)
    /\ next_roll' = next_roll + 1
    /\ AdvanceColumnMajor
    /\ UNCHANGED <<cfg, run, current_row, roll, batch_limits, batch_allocated,
                   batch_queues, prev_plan, validation, web_data,
                   service_vars>>

PlaceBroken ==
    /\ AtColumnSeat
    /\ IsBroken
    /\ seating_plan' = SetSeat(seating_plan, row, col, BrokenSeat)
    /\ AdvanceColumnMajor
    /\ UNCHANGED <<cfg, run, current_row, roll, batch_limits, batch_allocated,
                   batch_queues, next_roll, prev_plan, validation, web_data,
                   service_vars>>

PlaceGap ==
    /\ AtColumnSeat
    /\ ~IsBroken
    /\ IsGapColumn(cfg, col)
    /\ seating_plan' = SetSeat(seating_plan, row, col, UnallocatedSeat(NoBatch))
    /\ AdvanceColumnMajor
    /\ UNCHANGED <<cfg, run, current_row, roll, batch_limits, batch_allocated,
                   batch_queues, next_roll, prev_plan, validation, web_data,
                   service_vars>>

PlaceLimitReached ==
    /\ AtColumnSeat
    /\ ~IsBroken
    /\ ~IsGapColumn(cfg, col)
    /\ LimitReached
    /\ seating_plan' = SetSeat(seating_plan, row, col,
                               UnallocatedSeat(ColumnBatch(cfg, col)))
    /\ AdvanceColumnMajor
    /\ UNCHANGED <<cfg, run, current_row, roll, batch_limits, batch_allocated,
                   batch_queues, next_roll, prev_plan, validation, web_data,
                   service_vars>>

PlaceGlobalRoll ==
    /\ AtColumnSeat
    /\ ~IsBroken
    /\ ~IsGapColumn(cfg, col)
    /\ ~LimitReached
    /\ LET b == ColumnBatch(cfg, col)
           rn == Format(batch_template(cfg, b), Get(cfg.batch_prefixes, b, ""),
                        cfg.year, SerialStr(next_roll, self_serial_width(cfg)))
       IN  /\ UsesGlobalSerial(cfg, b)
           /\ next_roll' = next_roll + 1
           /\ seating_plan' = SetSeat(seating_plan, row, col, AllocatedSeat(b, rn))
           /\ batch_allocated' = [batch_allocated EXCEPT ![b] = @ + 1]
    /\ AdvanceColumnMajor
    /\ UNCHANGED <<cfg, run, current_row, roll, batch_limits, batch_queues, prev_plan,
                   validation, web_data,
                   service_vars>>

PlaceQueuedRoll ==
    /\ AtColumnSeat
    /\ ~IsBroken
    /\ ~IsGapColumn(cfg, col)
    /\ ~LimitReached
    /\ LET b == ColumnBatch(cfg, col)
       IN  /\ ~UsesGlobalSerial(cfg, b)
           /\ batch_queues[b] # <<>>
           /\ batch_queues' = [batch_queues EXCEPT ![b] = Tail(@)]
           /\ seating_plan' = SetSeat(seating_plan, row, col,
                                      AllocatedSeat(b, Head(batch_queues[b])))
           /\ batch_allocated' = [batch_allocated EXCEPT ![b] = @ + 1]
    /\ AdvanceColumnMajor
    /\ UNCHANGED <<cfg, run, current_row, roll, batch_limits, next_roll, prev_plan,
                   validation, web_data,
                   service_vars>>

PlaceNoRoll ==
    /\ AtColumnSeat
    /\ ~IsBroken
    /\ ~IsGapColumn(cfg, col)
    /\ ~LimitReached
    /\ LET b == ColumnBatch(cfg, col)
       IN  /\ ~UsesGlobalSerial(cfg, b)
           /\ batch_queues[b] = <<>>
           /\ seating_plan' = SetSeat(seating_plan, row, col, UnallocatedSeat(b))
    /\ AdvanceColumnMajor
    /\ UNCHANGED <<cfg, run, current_row, roll, batch_limits, batch_allocated,
                   batch_queues, next_roll, prev_plan, validation, web_data,
                   service_vars>>

(***************************************************************************)
(* generate_seating, row-major loop: one seat per step; the row is         *)
(* appended to seating_plan when its last seat has been built              *)
(***************************************************************************)
AtRowSeat == pc = "fill_rows" /\ row < cfg.rows /\ col < cfg.cols

AppendToRow(seat) ==
    IF col + 1 < cfg.cols
    THEN /\ current_row' = Append(current_row, seat)
         /\ seating_plan' = seating_plan
         /\ col' = col + 1
         /\ row' = row
         /\ pc' = pc
    ELSE /\ current_row' = <<>>
         /\ seating_plan' = Append(seating_plan, Append(current_row, seat))
         /\ col' = 0
         /\ row' = row + 1
         /\ pc' = IF row + 1 < cfg.rows THEN pc ELSE "done"

RowPlaceBroken ==
    /\ AtRowSeat
    /\ IsBroken
    /\ AppendToRow(BrokenSeat)
    /\ UNCHANGED <<cfg, run, roll, batch_limits, batch_allocated, batch_queues,
                   next_roll, prev_plan, validation, web_data,
                   service_vars>>

RowPlaceSeat ==
    /\ AtRowSeat
    /\ ~IsBroken
    /\ LET batch == _calculate_batch(cfg, row, col)
       IN  AppendToRow(Seat(row, col, batch, _calculate_paper_set(cfg, row, col),
                            UniformBlockIndex(cfg, col), ToString(roll), FALSE,
                            BatchColor(cfg, batch)))
    /\ roll' = roll + 1
    /\ UNCHANGED <<cfg, run, batch_limits, batch_allocated, batch_queues,
                   next_roll, prev_plan, validation, web_data,
                   service_vars>>

(***************************************************************************)
(* validate_constraints.  An error is a record naming the check that       *)
(* failed and the coordinates the message reports; the list keeps the      *)
(* order in which the checks append.                                       *)
(***************************************************************************)
\* self.seating_plan[r][c]
PlanSeat(r, c) == seating_plan[r + 1][c + 1]

Error(kind, r, c) == [kind |-> kind, row |-> r, col |-> c]

RECURSIVE Flatten(_)
Flatten(seqs) == IF seqs = <<>> THEN <<>> ELSE Head(seqs) \o Flatten(Tail(seqs))

\* for r in range(self.rows): for c in range(self.cols)
RowMajorCells ==
    IF HasSeats
    THEN [i \in 1..(cfg.rows * cfg.cols) |->
             <<(i - 1) \div cfg.cols, (i - 1) % cfg.cols>>]
    ELSE <<>>

\* Check 1: same batch to the right and below, broken seats skipped
AdjacentBatchErrorsAt(r, c) ==
    IF PlanSeat(r, c).is_broken THEN <<>>
    ELSE (IF /\ c + 1 < cfg.cols
             /\ ~PlanSeat(r, c + 1).is_broken
             /\ PlanSeat(r, c).batch = PlanSeat(r, c + 1).batch
          THEN <<Error("same_batch_horizontal", r, c)>> ELSE <<>>)
         \o
         (IF /\ r + 1 < cfg.rows
             /\ ~PlanSeat(r + 1, c).is_broken
             /\ PlanSeat(r, c).batch = PlanSeat(r + 1, c).batch
          THEN <<Error("same_batch_vertical", r, c)>> ELSE <<>>)

AdjacentBatchErrors ==
    Flatten([i \in 1..Len(RowMajorCells) |->
                AdjacentBatchErrorsAt(RowMajorCells[i][1], RowMajorCells[i][2])])

\* math.ceil(cols / self.block_width)
CeilDiv(a, b) == (a + b - 1) \div b

\* self.blocks
self_blocks(c) == CeilDiv(c.cols, self_block_width(c))

\* the blocks the paper-set check walks: those of the explicit structure,
\* else range(self.blocks)
NumBlocks(c) ==
    IF c.block_structure # <<>> THEN Len(c.block_structure) ELSE self_blocks(c)

\* start_col = block * self.block_width
start_col(c, block) ==
    IF c.block_structure # <<>> THEN BlockStart(c.block_structure, block)
    ELSE block * self_block_width(c)

\* end_col = min(start_col + self.block_width, self.cols)
end_col(c, block) ==
    IF c.block_structure # <<>>
    THEN Min(BlockStart(c.block_structure, block + 1), c.cols)
    ELSE Min(start_col(c, block) + self_block_width(c), c.cols)

\* Check 2: paper sets alternate inside the block and down the column
PaperSetErrorsAt(block, r, c) ==
    IF PlanSeat(r, c).is_broken THEN <<>>
    ELSE (IF /\ c + 1 < end_col(cfg, block)
             /\ ~PlanSeat(r, c + 1).is_broken
             /\ PlanSeat(r, c).paper_set = PlanSeat(r, c + 1).paper_set
          THEN <<Error("same_paper_set_horizontal", r, c)>> ELSE <<>>)
         \o
         (IF /\ r + 1 < cfg.rows
             /\ ~PlanSeat(r + 1, c).is_broken
             /\ PlanSeat(r, c).paper_set = PlanSeat(r + 1, c).paper_set
          THEN <<Error("same_paper_set_vertical", r, c)>> ELSE <<>>)

\* for r in range(self.rows): for c in range(start_col, end_col)
BlockErrors(block) ==
    LET first == start_col(cfg, block)
        width == Max(0, end_col(cfg, block) - first)
    IN  IF cfg.rows <= 0 THEN <<>>
        ELSE Flatten([i \in 1..(cfg.rows * width) |->
                        PaperSetErrorsAt(block, (i - 1) \div width,
                                         first + ((i - 1) % width))])

PaperSetErrors == Flatten([i \in 1..NumBlocks(cfg) |-> BlockErrors(i - 1)])

\* the seat carries an identifier the scan counts
CountsRoll(r, c) == ~PlanSeat(r, c).is_broken /\ PlanSeat(r, c).roll_number # None

SeenBeforeInRow(i) ==
    \E j \in 1..(i - 1) :
        /\ RowMajorCells[j][1] = RowMajorCells[i][1]
        /\ CountsRoll(RowMajorCells[j][1], RowMajorCells[j][2])
        /\ PlanSeat(RowMajorCells[j][1], RowMajorCells[j][2]).roll_number
              = PlanSeat(RowMajorCells[i][1], RowMajorCells[i][2]).roll_number

\* rn in seen_rolls, at the i-th cell of the scan
SeenBefore(i) ==
    \E j \in 1..(i - 1) :
        /\ CountsRoll(RowMajorCells[j][1], RowMajorCells[j][2])
        /\ PlanSeat(RowMajorCells[j][1], RowMajorCells[j][2]).roll_number
              = PlanSeat(RowMajorCells[i][1], RowMajorCells[i][2]).roll_number

\* Check 3: duplicate identifiers, then the count of distinct identifiers
DuplicateErrors ==
    LET dups == Flatten([i \in 1..Len(RowMajorCells) |->
                    IF /\ CountsRoll(RowMajorCells[i][1], RowMajorCells[i][2])
                       /\ SeenBefore(i)
                    THEN <<Error("duplicate_roll", RowMajorCells[i][1],
                                 RowMajorCells[i][2])>>
                    ELSE <<>>])
        assigned_count ==
            Cardinality({i \in 1..Len(RowMajorCells) :
                            CountsRoll(RowMajorCells[i][1], RowMajorCells[i][2])})
        seen_rolls ==
            {PlanSeat(RowMajorCells[i][1], RowMajorCells[i][2]).roll_number :
                i \in {k \in 1..Len(RowMajorCells) :
                          CountsRoll(RowMajorCells[k][1], RowMajorCells[k][2])}}
    IN  dups \o (IF Cardinality(seen_rolls) # assigned_count
                 THEN <<Error("count_mismatch", assigned_count,
                              Cardinality(seen_rolls))>>
                 ELSE <<>>)

\* Check 4: calculated_blocks != self.blocks
BlocksErrors ==
    IF CeilDiv(cfg.cols, self_block_width(cfg)) # self_blocks(cfg)
    THEN <<Error("blocks_mismatch", self_blocks(cfg),
                 CeilDiv(cfg.cols, self_block_width(cfg)))>>
    ELSE <<>>

\* return len(errors) == 0, errors
validate_constraints(enforce_no_adjacent_batches) ==
    LET errors == (IF enforce_no_adjacent_batches THEN AdjacentBatchErrors ELSE <<>>)
                  \o PaperSetErrors \o DuplicateErrors \o BlocksErrors
    IN  [is_valid |-> (Len(errors) = 0), errors |-> errors]

\* the configuration errors the constructor collects instead of raising
init_errors(c) ==
    (IF c.block_structure # <<>> /\ SumSeq(c.block_structure) # c.cols
     THEN <<Error("block_structure", SumSeq(c.block_structure), c.cols)>> ELSE <<>>)
    \o (IF c.rows <= 0 \/ c.cols <= 0
        THEN <<Error("dimensions", c.rows, c.cols)>> ELSE <<>>)
    \o (IF c.num_batches = 0
        THEN <<Error("num_batches", 0, 0)>> ELSE <<>>)

(***************************************************************************)
(* After generate_seating: the grid is validated, by a direct call or by   *)
(* one of the API entry points, or a seat is overwritten first.            *)
(***************************************************************************)
\* plan[1][0].roll_number = plan[0][0].roll_number, on the returned grid
OverwriteRoll ==
    /\ pc = "done"
    /\ HasSeats
    /\ PlanSeat(0, 0).roll_number # None
    /\ \E dst \in {<<1, 0>>, <<0, 1>>} \cap Cells(cfg.rows, cfg.cols) :
          seating_plan' = SetSeat(seating_plan, dst[1], dst[2],
                                  [PlanSeat(dst[1], dst[2]) EXCEPT
                                      !.roll_number = PlanSeat(0, 0).roll_number])
    /\ pc' = "tampered"
    /\ UNCHANGED <<cfg, run, current_row, col, row, roll, batch_limits,
                   batch_allocated, batch_queues, next_roll, prev_plan, validation, web_data,
                   service_vars>>

\* is_valid, errors = algo.validate_constraints().  The constructor argument
\* enforce_no_adjacent_batches is read by validate_constraints only, so its
\* value is drawn here.
ValidateConstraints ==
    /\ pc \in {"done", "tampered"}
    /\ \E enforce \in BOOLEAN :
          validation' = [entry |-> "validate", enforce |-> enforce]
                        @@ validate_constraints(enforce)
    /\ pc' = IF pc = "done" THEN "validated" ELSE "validated_overwritten"
    /\ UNCHANGED <<cfg, run, seating_plan, current_row, col, row, roll, batch_limits,
                   batch_allocated, batch_queues, next_roll, prev_plan, web_data,
                   service_vars>>

\* the arguments manual_generate_seating and generate_seating pass on:
\* no template, prefixes, year or start serials, and the first run of a
\* fresh engine
FromRequest ==
    /\ run = 1
    /\ cfg.roll_template = <<>>
    /\ DOMAIN cfg.batch_prefixes = {}
    /\ cfg.year = NoYear
    /\ DOMAIN cfg.start_serials = {}
    /\ cfg.start_serial = PlainIds.start_serial

\* allocations.generate_seating: validate, merge init_errors, respond
SessionGenerateResponse ==
    /\ pc = "done"
    /\ FromRequest
    /\ ~(cfg.num_batches = 0 \/ DOMAIN cfg.batch_student_counts = {})
    /\ LET result == validate_constraints(FALSE)
           errors == init_errors(cfg) \o result.errors
           ok == IF init_errors(cfg) # <<>> THEN FALSE ELSE result.is_valid
       IN  validation' = [entry |-> "session", enforce |-> FALSE,
                          is_valid |-> ok, errors |-> errors]
    /\ pc' = "responded"
    /\ UNCHANGED <<cfg, run, seating_plan, current_row, col, row, roll, batch_limits,
                   batch_allocated, batch_queues, next_roll, prev_plan, web_data,
                   service_vars>>

\* allocations.manual_generate_seating: validate, respond
ManualGenerateResponse ==
    /\ pc = "done"
    /\ FromRequest
    /\ DOMAIN cfg.batch_roll_numbers = {}
    /\ LET result == validate_constraints(FALSE)
       IN  validation' = [entry |-> "manual", enforce |-> FALSE,
                          is_valid |-> result.is_valid, errors |-> result.errors]
    /\ pc' = "responded"
    /\ UNCHANGED <<cfg, run, seating_plan, current_row, col, row, roll, batch_limits,
                   batch_allocated, batch_queues, next_roll, prev_plan, web_data,
                   service_vars>>

(***************************************************************************)
(* to_web_format and _generate_summary                                     *)
(***************************************************************************)
Letters ==
    <<"A", "B", "C", "D", "E", "F", "G", "H", "I", "J", "K", "L", "M",
      "N", "O", "P", "Q", "R", "S", "T", "U", "V", "W", "X", "Y", "Z">>

\* f"{chr(65 + col_idx)}{row_idx + 1}"
position(row_idx, col_idx) == Letters[col_idx + 1] \o ToString(row_idx + 1)

\* the record of one seat; a broken seat has no is_unallocated key
seat_data(row_idx, col_idx) ==
    LET seat == PlanSeat(row_idx, col_idx)
    IN  IF seat.is_broken
        THEN [position |-> position(row_idx, col_idx), batch |-> NoBatch,
              paper_set |-> None, block |-> NoBlock, roll_number |-> None,
              is_broken |-> TRUE, display |-> "BROKEN",
              css_class |-> "seat-broken", color |-> "#FF0000"]
        ELSE [position |-> position(row_idx, col_idx), batch |-> seat.batch,
              paper_set |-> seat.paper_set, block |-> seat.block,
              roll_number |-> seat.roll_number, is_broken |-> FALSE,
              is_unallocated |-> (seat.roll_number = None),
              display |-> (IF seat.roll_number # None
                           THEN seat.roll_number \o seat.paper_set
                           ELSE "UNALLOCATED"),
              css_class |-> (IF seat.roll_number # None
                             THEN "batch-" \o ToString(seat.batch) \o " set-"
                                  \o seat.paper_set
                             ELSE "seat-unallocated"),
              color |-> seat.color]

\* the seats the summary loop counts: if seat.is_broken or
\* seat.roll_number is None: continue
CountedCells ==
    {cell \in Cells(cfg.rows, cfg.cols) : CountsRoll(cell[1], cell[2])}

_generate_summary ==
    LET batch_counts ==
            [b \in {PlanSeat(cell[1], cell[2]).batch : cell \in CountedCells} |->
                Cardinality({cell \in CountedCells :
                                PlanSeat(cell[1], cell[2]).batch = b})]
        set_counts ==
            [ps \in {"A", "B"} |->
                Cardinality({cell \in CountedCells :
                                PlanSeat(cell[1], cell[2]).paper_set = ps})]
        total_seats == cfg.rows * cfg.cols
        broken_seats_count == Cardinality(cfg.broken_seats)
        available_seats == total_seats - broken_seats_count
        expected(b) ==
            IF b \in DOMAIN cfg.batch_student_counts
            THEN cfg.batch_student_counts[b]
            ELSE (available_seats \div cfg.num_batches)
                 + (IF b - 1 < available_seats % cfg.num_batches THEN 1 ELSE 0)
    IN  [batch_distribution |-> batch_counts,
         paper_set_distribution |-> set_counts,
         total_students |->
             SumSeq([b \in 1..cfg.num_batches |-> Get(batch_counts, b, 0)]),
         broken_seats_count |-> broken_seats_count,
         unallocated_per_batch |->
             [b \in 1..cfg.num_batches |->
                 Max(0, expected(b) - Get(batch_counts, b, 0))]]

to_web_format ==
    [metadata |-> [rows |-> cfg.rows, cols |-> cfg.cols,
                   num_batches |-> cfg.num_batches, blocks |-> self_blocks(cfg),
                   block_width |-> self_block_width(cfg)],
     seating |-> [r \in 1..Len(seating_plan) |->
                    [c \in 1..Len(seating_plan[r]) |-> seat_data(r - 1, c - 1)]],
     summary |-> _generate_summary]

\* web = algo.to_web_format(), on the grid generate_seating returned
ToWebFormat ==
    /\ pc = "done"
    /\ web_data' = to_web_format
    /\ pc' = "formatted"
    /\ UNCHANGED <<cfg, run, seating_plan, current_row, col, row, roll, batch_limits,
                   batch_allocated, batch_queues, next_roll, prev_plan, validation,
                   service_vars>>

Next ==
    \/ BeginColumnMajorRaises
    \/ BeginColumnMajor
    \/ BeginRowMajor
    \/ PlaceBroken
    \/ PlaceGap
    \/ PlaceLimitReached
    \/ PlaceGlobalRoll
    \/ PlaceQueuedRoll
    \/ PlaceNoRoll
    \/ RowPlaceBroken
    \/ RowPlaceSeat
    \/ OverwriteRoll
    \/ ValidateConstraints
    \/ SessionGenerateResponse
    \/ ManualGenerateResponse
    \/ ToWebFormat

Spec == Init /\ [][Next]_vars

(***************************************************************************)
(* The finished grid                                                       *)
(***************************************************************************)
Done == pc = "done"

RowIdx == 0..(cfg.rows - 1)
ColIdx == 0..(cfg.cols - 1)

\* self.seating_plan[r][c]
SeatAt(r, c) == seating_plan[r + 1][c + 1]

\* the seat holds a student: not broken, identifier present
IsAllocated(seat) == ~seat.is_broken /\ seat.roll_number # None

\* the cells whose seat holds a student of batch b
AllocatedCells(b) ==
    {cell \in Cells(cfg.rows, cfg.cols) :
        /\ IsAllocated(SeatAt(cell[1], cell[2]))
        /\ SeatAt(cell[1], cell[2]).batch = b}

\* the identifiers the queue of batch b held when the fill began
InitialQueue(b) == BuildQueues(cfg, 1, cfg.start_serial, EmptyDict).queues[b]

(***************************************************************************)
(* C1: under either placement strategy the returned grid has exactly rows  *)
(* rows of exactly cols seats, every cell holds a Seat, and the seat at    *)
(* (r, c) reports row = r and col = c.                                     *)
(***************************************************************************)
C1_GridShape ==
    Done =>
        /\ Len(seating_plan) = cfg.rows
        /\ \A r \in RowIdx :
              /\ Len(seating_plan[r + 1]) = cfg.cols
              /\ \A c \in ColIdx :
                    /\ SeatAt(r, c) # NoSeat
                    /\ SeatAt(r, c).row = r
                    /\ SeatAt(r, c).col = c

C1_Witness ==
    /\ Done
    /\ cfg.rows = 2
    /\ cfg.cols = 2
    /\ ~cfg.batch_by_column
    /\ cfg.broken_seats # {}

(***************************************************************************)
(* C2: a seat of the finished grid is broken iff its (row, col) is in the  *)
(* supplied broken-seat set; a broken seat has no batch, no paper set and  *)
(* no identifier; and a broken seat consumes no identifier and counts      *)
(* toward no quota: in column-major mode each batch's allocation counter   *)
(* and the identifiers taken from its queue equal the number of seats that *)
(* hold a student of the batch, and in row-major mode the identifier       *)
(* counter has advanced once per non-broken seat.                          *)
(***************************************************************************)
C2_BrokenSeats ==
    Done =>
        /\ \A r \in RowIdx, c \in ColIdx :
              /\ SeatAt(r, c).is_broken <=> (<<r, c>> \in cfg.broken_seats)
              /\ SeatAt(r, c).is_broken =>
                    /\ SeatAt(r, c).batch = NoBatch
                    /\ SeatAt(r, c).paper_set = None
                    /\ SeatAt(r, c).roll_number = None
        /\ cfg.batch_by_column =>
              \A b \in 1..cfg.num_batches :
                 /\ batch_allocated[b] = Cardinality(AllocatedCells(b))
                 /\ ~UsesGlobalSerial(cfg, b) =>
                       Len(InitialQueue(b)) - Len(batch_queues[b])
                           = Cardinality(AllocatedCells(b))
        /\ ~cfg.batch_by_column =>
              roll - 1 = Cardinality(Cells(cfg.rows, cfg.cols) \ cfg.broken_seats)

C2_Witness ==
    /\ Done
    /\ cfg.batch_by_column
    /\ cfg.rows = 2
    /\ cfg.broken_seats = {<<0, 1>>}
    /\ SeatAt(0, 1).is_broken
    /\ IsAllocated(SeatAt(1, 1))

(***************************************************************************)
(* C3: in column-major mode, for every batch b with a student-count limit  *)
(* L_b, at most L_b seats of the finished grid have batch = b and an       *)
(* identifier, in every identifier mode.                                   *)
(***************************************************************************)
C3_QuotaRespected ==
    (Done /\ cfg.batch_by_column) =>
        \A b \in (1..cfg.num_batches) \cap DOMAIN cfg.batch_student_counts :
            Cardinality(AllocatedCells(b)) <= cfg.batch_student_counts[b]

C3_Witness ==
    /\ Done
    /\ cfg.batch_by_column
    /\ 1 \in DOMAIN cfg.batch_student_counts
    /\ cfg.batch_student_counts[1] = 1
    /\ Cardinality(AllocatedCells(1)) = 1
    /\ \E r \in RowIdx, c \in ColIdx :
          /\ ~SeatAt(r, c).is_broken
          /\ SeatAt(r, c).batch = 1
          /\ SeatAt(r, c).roll_number = None

(***************************************************************************)
(* C4: no two seats of the finished grid carry the same identifier, in     *)
(* every identifier mode; in particular two batches numbered per_batch     *)
(* never produce the same identifier string.                               *)
(***************************************************************************)
C4_UniqueIdentifiers ==
    Done =>
        \A c1, c2 \in Cells(cfg.rows, cfg.cols) :
            (/\ c1 # c2
             /\ IsAllocated(SeatAt(c1[1], c1[2]))
             /\ IsAllocated(SeatAt(c2[1], c2[2])))
            => SeatAt(c1[1], c1[2]).roll_number # SeatAt(c2[1], c2[2]).roll_number

(***************************************************************************)
(* C5: in every column, two non-broken seats of the same batch that are    *)
(* vertically consecutive once the broken seats between them are ignored   *)
(* have different paper sets.                                              *)
(***************************************************************************)
VerticalNeighbours(r1, r2, c) ==
    /\ r1 < r2
    /\ ~SeatAt(r1, c).is_broken
    /\ ~SeatAt(r2, c).is_broken
    /\ \A r \in (r1 + 1)..(r2 - 1) : SeatAt(r, c).is_broken

C5_VerticalAlternation ==
    Done =>
        \A c \in ColIdx, r1, r2 \in RowIdx :
            (/\ VerticalNeighbours(r1, r2, c)
             /\ SeatAt(r1, c).batch # NoBatch
             /\ SeatAt(r1, c).batch = SeatAt(r2, c).batch)
            => SeatAt(r1, c).paper_set # SeatAt(r2, c).paper_set

(***************************************************************************)
(* C6: in column-major mode with N >= 2 batches every non-broken seat of   *)
(* column c has batch (c mod N) + 1, allocated or not, so two non-broken   *)
(* seats in the same row and in adjacent columns never share a batch.      *)
(***************************************************************************)
C6_ColumnOwnership ==
    (Done /\ cfg.batch_by_column /\ cfg.num_batches >= 2) =>
        /\ \A r \in RowIdx, c \in ColIdx :
              ~SeatAt(r, c).is_broken =>
                  SeatAt(r, c).batch = (c % cfg.num_batches) + 1
        /\ \A r \in RowIdx, c \in ColIdx :
              (/\ c + 1 < cfg.cols
               /\ ~SeatAt(r, c).is_broken
               /\ ~SeatAt(r, c + 1).is_broken)
              => SeatAt(r, c).batch # SeatAt(r, c + 1).batch

C6_Witness ==
    /\ Done
    /\ cfg.batch_by_column
    /\ cfg.num_batches = 2
    /\ cfg.cols >= 3
    /\ \E r \in RowIdx :
          /\ IsAllocated(SeatAt(r, 0))
          /\ ~SeatAt(r, 1).is_broken
          /\ SeatAt(r, 1).roll_number = None
          /\ IsAllocated(SeatAt(r, 2))

(***************************************************************************)
(* C7: with exactly one batch and allow_adjacent_same_batch = false, for   *)
(* every block layout, no two seats in the same row and in adjacent        *)
(* columns both carry the batch, block boundaries included.                *)
(***************************************************************************)
C7_NoAdjacentSingleBatch ==
    (Done /\ cfg.batch_by_column /\ cfg.num_batches = 1
          /\ ~cfg.allow_adjacent_same_batch) =>
        \A r \in RowIdx, c \in ColIdx :
            c + 1 < cfg.cols =>
                ~(SeatAt(r, c).batch = 1 /\ SeatAt(r, c + 1).batch = 1)

(***************************************************************************)
(* C8: with exactly one batch in column-major mode, a column that has a    *)
(* non-broken seat is a gap column (every non-broken seat in it has no     *)
(* batch and no identifier) iff allow_adjacent_same_batch is false and the *)
(* column's zero-based offset within its block is odd; with                *)
(* allow_adjacent_same_batch = true every non-broken seat belongs to the   *)
(* batch, and one is left without identifier only when the quota or the    *)
(* identifier supply is used up.                                           *)
(***************************************************************************)
\* the widths of the blocks in use: the explicit structure, else the
\* uniform width repeated
BlockWidths ==
    IF cfg.block_structure # <<>> THEN cfg.block_structure
    ELSE UniformStructure(cfg.cols, Max(1, cfg.block_width))

\* the offset of column c in its block, from the block boundaries
OffsetInBlock(c) ==
    LET i == CHOOSE k \in 1..Len(BlockWidths) :
                 /\ SumSeq(SubSeq(BlockWidths, 1, k - 1)) <= c
                 /\ c < SumSeq(SubSeq(BlockWidths, 1, k))
    IN  c - SumSeq(SubSeq(BlockWidths, 1, i - 1))

HasUsableSeat(c) == \E r \in RowIdx : ~SeatAt(r, c).is_broken

IsGapColumnOfGrid(c) ==
    \A r \in RowIdx :
        ~SeatAt(r, c).is_broken =>
            SeatAt(r, c).batch = NoBatch /\ SeatAt(r, c).roll_number = None

C9_CrossBlockAlternation ==
    (Done /\ cfg.batch_by_column /\ cfg.num_batches = 1
          /\ ~cfg.allow_adjacent_same_batch
          /\ cfg.block_structure = <<>> /\ cfg.block_width = 2) =>
        /\ \A r \in RowIdx, c \in ColIdx :
              (/\ c % 2 = 0
               /\ c + 2 < cfg.cols
               /\ IsAllocated(SeatAt(r, c))
               /\ IsAllocated(SeatAt(r, c + 2)))
              => SeatAt(r, c).paper_set # SeatAt(r, c + 2).paper_set
        /\ (/\ cfg.rows = 1 /\ cfg.cols = 4
             /\ cfg.broken_seats = {} /\ cfg.batch_student_counts = EmptyDict) =>
              /\ IsAllocated(SeatAt(0, 0)) /\ SeatAt(0, 0).batch = 1
              /\ IsAllocated(SeatAt(0, 2)) /\ SeatAt(0, 2).batch = 1
              /\ IsGapColumnOfGrid(1)
              /\ IsGapColumnOfGrid(3)
              /\ SeatAt(0, 0).paper_set # SeatAt(0, 2).paper_set

(***************************************************************************)
(* C10: a second call of generate on the same engine instance returns a    *)
(* grid identical, seat for seat, to the one the first call returned.      *)
(***************************************************************************)
C10_Idempotent == (Done /\ run >= 2) => seating_plan = prev_plan

C10_Witness ==
    /\ Done
    /\ run = 2
    /\ cfg.batch_by_column
    /\ cfg.serial_mode = "global"
    /\ cfg.num_batches = 2
    /\ cfg.cols >= 2
    /\ \E r \in RowIdx : IsAllocated(SeatAt(r, 0)) /\ IsAllocated(SeatAt(r, 1))

(***************************************************************************)
(* C11: when start_rolls gives batch b an example identifier P D (literal  *)
(* prefix P, trailing digit run D), serial_width is not supplied (0) and   *)
(* serial_mode is per_batch, the k-th seat allocated to b in column-major  *)
(* fill order (k = 0, 1, ...) carries P followed by int(D) + k zero-padded *)
(* to len(D): the first identifier is the example itself.                  *)
(***************************************************************************)
FilledBeforeRowMajor(cell1, cell2) ==
    \/ cell1[1] < cell2[1]
    \/ (cell1[1] = cell2[1] /\ cell1[2] < cell2[2])

\* (c1, r1) is filled before (c2, r2): for col ...: for row ...
FilledBefore(cell1, cell2) ==
    \/ cell1[2] < cell2[2]
    \/ (cell1[2] = cell2[2] /\ cell1[1] < cell2[1])

\* k: how many seats of batch b were allocated before the cell
FillRank(b, cell) ==
    Cardinality({other \in AllocatedCells(b) : FilledBefore(other, cell)})

\* P followed by int(D) + k padded to len(D)
ExampleIdentifier(example, k) ==
    LET n == TrailingDigitCount(example)
        P == Join(SubSeq(example, 1, Len(example) - n))
        D == SubSeq(example, Len(example) - n + 1, Len(example))
    IN  P \o zfill(ToString(IntOf(D) + k), n)

C11_StartRollSequence ==
    (Done /\ cfg.batch_by_column /\ cfg.serial_width = 0
          /\ cfg.serial_mode = "per_batch") =>
        \A b \in (1..cfg.num_batches) \cap DOMAIN cfg.start_rolls :
            TrailingDigitCount(cfg.start_rolls[b]) > 0 =>
                \A cell \in AllocatedCells(b) :
                    SeatAt(cell[1], cell[2]).roll_number
                        = ExampleIdentifier(cfg.start_rolls[b], FillRank(b, cell))

(***************************************************************************)
(* C12: in pre-supplied roster mode the identifiers of batch b, read in    *)
(* column-major fill order, are exactly the first m entries of b's list,   *)
(* m = min(list length, b's quota, non-broken seats in b's columns); every *)
(* identifier placed comes from the batch's own list and none is placed    *)
(* twice.                                                                  *)
(***************************************************************************)
\* the columns batch b fills: its share of the columns, gap columns excluded
ColumnsOf(b) ==
    {c \in ColIdx :
        /\ (c % cfg.num_batches) + 1 = b
        /\ ~(/\ cfg.num_batches = 1
             /\ ~cfg.allow_adjacent_same_batch
             /\ OffsetInBlock(c) % 2 = 1)}

UsableSeatsOf(b) ==
    Cardinality({cell \in Cells(cfg.rows, cfg.cols) :
                    cell[2] \in ColumnsOf(b) /\ cell \notin cfg.broken_seats})

RosterSeated(b) ==
    LET roster == cfg.batch_roll_numbers[b]
        seats == UsableSeatsOf(b)
        quota == IF b \in DOMAIN cfg.batch_student_counts
                 THEN cfg.batch_student_counts[b] ELSE seats
    IN  Min(Len(roster), Min(quota, seats))

C12_RosterOrder ==
    (Done /\ cfg.batch_by_column) =>
        \A b \in (1..cfg.num_batches) \cap DOMAIN cfg.batch_roll_numbers :
            /\ Cardinality(AllocatedCells(b)) = RosterSeated(b)
            /\ \A cell \in AllocatedCells(b) :
                  /\ FillRank(b, cell) + 1 <= Len(cfg.batch_roll_numbers[b])
                  /\ SeatAt(cell[1], cell[2]).roll_number
                        = cfg.batch_roll_numbers[b][FillRank(b, cell) + 1]
            /\ \A cell1, cell2 \in AllocatedCells(b) :
                  cell1 # cell2 =>
                      SeatAt(cell1[1], cell1[2]).roll_number
                          # SeatAt(cell2[1], cell2[2]).roll_number

C12_Witness ==
    /\ Done
    /\ cfg.batch_by_column
    /\ cfg.num_batches = 2
    /\ cfg.rows = 2
    /\ cfg.cols = 2
    /\ DOMAIN cfg.batch_roll_numbers = {1, 2}
    /\ SeatAt(0, 0).roll_number = "E001"
    /\ SeatAt(1, 0).roll_number = "E002"
    /\ SeatAt(0, 1).roll_number = "E003"
    /\ ~SeatAt(1, 1).is_broken
    /\ SeatAt(1, 1).roll_number = None

(***************************************************************************)
(* C13: for an explicit block_structure w_0..w_(k-1) of positive widths    *)
(* summing to cols, and for the structure a uniform width yields, every    *)
(* column c maps to exactly one block index i, the unique i with           *)
(* w_0+...+w_(i-1) <= c < w_0+...+w_i; the indices used are exactly        *)
(* 0..k-1; the column's offset in its block is c - (w_0+...+w_(i-1)); and  *)
(* two columns lie between the same boundaries iff their indices are equal.*)
(***************************************************************************)
WellFormedLayout ==
    /\ cfg.cols >= 1
    /\ cfg.block_structure # <<>> =>
          /\ \A i \in 1..Len(cfg.block_structure) : cfg.block_structure[i] >= 1
          /\ SumSeq(cfg.block_structure) = cfg.cols

\* w_0 + ... + w_(i-1) of the widths in use
BoundaryBefore(i) == SumSeq(SubSeq(BlockWidths, 1, i))

InBlock(c, i) == BoundaryBefore(i) <= c /\ c < BoundaryBefore(i + 1)

C13_BlockTopology ==
    (Done /\ WellFormedLayout) =>
        LET k == Len(BlockWidths)
        IN  /\ \A c \in ColIdx :
                  /\ Cardinality({i \in 0..(k - 1) : InBlock(c, i)}) = 1
                  /\ _get_block_index(cfg, c) \in 0..(k - 1)
                  /\ InBlock(c, _get_block_index(cfg, c))
                  /\ _get_col_in_block(cfg, c)
                        = c - BoundaryBefore(_get_block_index(cfg, c))
            /\ {_get_block_index(cfg, c) : c \in ColIdx} = 0..(k - 1)
            /\ \A c1, c2 \in ColIdx :
                  (\E i \in 0..(k - 1) : InBlock(c1, i) /\ InBlock(c2, i))
                      <=> (_get_block_index(cfg, c1) = _get_block_index(cfg, c2))

C13_Witness ==
    /\ Done
    /\ cfg.batch_by_column
    /\ cfg.cols = 3
    /\ cfg.block_structure = <<1, 2>>
    /\ cfg.broken_seats = {}
    /\ SeatAt(0, 0).block = 0
    /\ SeatAt(0, 1).block = 1
    /\ SeatAt(0, 2).block = 1

(***************************************************************************)
(* C14: when block_structure is supplied and its widths do not sum to      *)
(* cols, construction and generate do not raise, the error is recorded as  *)
(* an initialization error, and the validation every entry point reports   *)
(* (session-based generate and manual generate alike) has is_valid = false *)
(* with that error in its list.                                            *)
(***************************************************************************)
MalformedStructure ==
    cfg.block_structure # <<>> /\ SumSeq(cfg.block_structure) # cfg.cols

ReportsStructureError(v) ==
    /\ ~v.is_valid
    /\ \E i \in 1..Len(v.errors) : v.errors[i].kind = "block_structure"

C14_StructureErrorReported ==
    MalformedStructure =>
        /\ pc # "raised"
        /\ \E i \in 1..Len(init_errors(cfg)) :
              init_errors(cfg)[i].kind = "block_structure"
        /\ pc = "responded" => ReportsStructureError(validation)

(***************************************************************************)
(* C15: for num_batches = 0, rows <= 0 or cols <= 0 the engine does not    *)
(* abort with an exception: the problem is in the init-error list, and     *)
(* generate still returns a well-formed (possibly empty) grid.             *)
(***************************************************************************)
DegenerateConfig == cfg.num_batches = 0 \/ cfg.rows <= 0 \/ cfg.cols <= 0

C15_DegenerateNoAbort ==
    DegenerateConfig =>
        /\ pc # "raised"
        /\ init_errors(cfg) # <<>>
        /\ Done =>
              /\ Len(seating_plan) = Max(0, cfg.rows)
              /\ \A r \in 1..Len(seating_plan) :
                    Len(seating_plan[r]) = Max(0, cfg.cols)

(***************************************************************************)
(* C16: every grid generated in column-major mode with two or more batches *)
(* passes validation with no violation, for any broken-seat set and any    *)
(* quotas; in particular two non-broken seats that are horizontally        *)
(* adjacent within one block, or vertically adjacent in one column, have   *)
(* different paper sets whatever their batches.                            *)
(***************************************************************************)
PaperSetsAlternate ==
    \A r \in RowIdx, c \in ColIdx :
        ~SeatAt(r, c).is_broken =>
            /\ (/\ c + 1 < cfg.cols
                /\ \E i \in 0..(Len(BlockWidths) - 1) : InBlock(c, i) /\ InBlock(c + 1, i)
                /\ ~SeatAt(r, c + 1).is_broken)
               => SeatAt(r, c).paper_set # SeatAt(r, c + 1).paper_set
            /\ (/\ r + 1 < cfg.rows
                /\ ~SeatAt(r + 1, c).is_broken)
               => SeatAt(r, c).paper_set # SeatAt(r + 1, c).paper_set

C16_MultiBatchValidates ==
    (cfg.batch_by_column /\ cfg.num_batches >= 2 /\ WellFormedLayout) =>
        /\ (Done /\ HasSeats) => PaperSetsAlternate
        /\ (pc = "validated" /\ ~validation.enforce) => validation.is_valid

(***************************************************************************)
(* C17: when the caller opts in to the same-batch adjacency check, every   *)
(* grid of the column-major strategy validates without a same-batch        *)
(* adjacency violation, horizontal or vertical, non-broken seats only.     *)
(***************************************************************************)
C17_NoSameBatchAdjacency ==
    (cfg.batch_by_column /\ pc = "validated" /\ validation.enforce) =>
        \A i \in 1..Len(validation.errors) :
            validation.errors[i].kind
                \notin {"same_batch_horizontal", "same_batch_vertical"}

(***************************************************************************)
(* C18: in column-major mode with the default block settings, no broken    *)
(* seats and as many batches as columns, every allocated seat at (r, c)    *)
(* has paper set A when r + c is even and B when r + c is odd, c being the *)
(* absolute column index.                                                  *)
(***************************************************************************)
C18_AbsoluteCheckerboard ==
    (/\ Done
     /\ cfg.batch_by_column
     /\ cfg.block_width = DefaultBlockWidth
     /\ cfg.block_structure = <<>>
     /\ cfg.broken_seats = {}
     /\ cfg.num_batches = cfg.cols) =>
        \A r \in RowIdx, c \in ColIdx :
            IsAllocated(SeatAt(r, c)) =>
                SeatAt(r, c).paper_set = (IF (r + c) % 2 = 0 THEN "A" ELSE "B")

(***************************************************************************)
(* C19: validate reports a duplicate-identifier violation, with is_valid = *)
(* false, iff two non-broken seats of the grid carry the same non-null     *)
(* identifier (for example after a seat's identifier was overwritten once  *)
(* the grid was generated); is_valid is true exactly when the violation    *)
(* list is empty.                                                          *)
(***************************************************************************)
Validated == pc \in {"validated", "validated_overwritten"}

ReportsDuplicate(v) ==
    \E i \in 1..Len(v.errors) : v.errors[i].kind = "duplicate_roll"

SharedIdentifier ==
    \E cell1, cell2 \in Cells(cfg.rows, cfg.cols) :
        /\ cell1 # cell2
        /\ ~SeatAt(cell1[1], cell1[2]).is_broken
        /\ ~SeatAt(cell2[1], cell2[2]).is_broken
        /\ SeatAt(cell1[1], cell1[2]).roll_number # None
        /\ SeatAt(cell1[1], cell1[2]).roll_number
              = SeatAt(cell2[1], cell2[2]).roll_number

C19_DuplicateDetection ==
    Validated =>
        /\ ReportsDuplicate(validation) <=> SharedIdentifier
        /\ ReportsDuplicate(validation) => ~validation.is_valid
        /\ validation.is_valid <=> (validation.errors = <<>>)

C19_Witness ==
    /\ pc = "validated_overwritten"
    /\ cfg.rows >= 2
    /\ cfg.cols >= 2
    /\ cfg.num_batches = 2
    /\ ~SeatAt(1, 0).is_broken
    /\ SeatAt(1, 0).roll_number = SeatAt(0, 0).roll_number
    /\ ~validation.is_valid
    /\ \E i \in 1..Len(validation.errors) :
          validation.errors[i] = Error("duplicate_roll", 1, 0)

(***************************************************************************)
(* C20: every non-broken seat that has no same-batch non-broken seat above *)
(* it in its column, and whose nearest non-broken seat to the left within  *)
(* its block is absent or of another batch, has paper set A when row +     *)
(* (the column's offset within its block) is even and B otherwise; the     *)
(* offset decides, not the absolute column, for uniform and variable block *)
(* widths.                                                                 *)
(***************************************************************************)
SameBatch(seat1, seat2) == seat1.batch # NoBatch /\ seat1.batch = seat2.batch

NoSameBatchAbove(r, c) ==
    \A r2 \in 0..(r - 1) :
        SeatAt(r2, c).is_broken \/ ~SameBatch(SeatAt(r2, c), SeatAt(r, c))

\* the columns to the left of c in c's block that hold a non-broken seat in row r
LeftInBlock(r, c) ==
    {c2 \in 0..(c - 1) :
        /\ c - c2 <= OffsetInBlock(c)
        /\ ~SeatAt(r, c2).is_broken}

NoSameBatchLeft(r, c) ==
    \/ LeftInBlock(r, c) = {}
    \/ LET nearest == CHOOSE c2 \in LeftInBlock(r, c) :
                          \A c3 \in LeftInBlock(r, c) : c3 <= c2
       IN  ~SameBatch(SeatAt(r, nearest), SeatAt(r, c))

SameBlock(c1, c2) == _get_block_index(cfg, c1) = _get_block_index(cfg, c2)

C21_HorizontalAlternation ==
    (Done /\ HasSeats) =>
        \A r \in RowIdx, c \in ColIdx :
            (/\ c + 1 < cfg.cols
             /\ SameBlock(c, c + 1)
             /\ ~SeatAt(r, c).is_broken
             /\ ~SeatAt(r, c + 1).is_broken
             /\ SameBatch(SeatAt(r, c), SeatAt(r, c + 1)))
            => SeatAt(r, c).paper_set # SeatAt(r, c + 1).paper_set

\* one batch seated in adjacent columns of one block, below a broken seat
C21_Witness ==
    /\ Done
    /\ cfg.batch_by_column
    /\ cfg.num_batches = 1
    /\ cfg.allow_adjacent_same_batch
    /\ cfg.rows = 2
    /\ cfg.cols = 2
    /\ SameBlock(0, 1)
    /\ SeatAt(0, 0).is_broken
    /\ IsAllocated(SeatAt(0, 1))
    /\ IsAllocated(SeatAt(1, 0))
    /\ IsAllocated(SeatAt(1, 1))
    /\ SameBatch(SeatAt(1, 0), SeatAt(1, 1))
    /\ SeatAt(1, 0).paper_set = "B"
    /\ SeatAt(1, 1).paper_set = "A"

(***************************************************************************)
(* C22: in column-major fill order (columns ascending, rows top to bottom  *)
(* within a column) the allocated seats of each batch form a prefix of the *)
(* batch's non-broken seats: once a seat of batch b is left unallocated    *)
(* (batch = b, identifier null) every later non-broken seat of b is        *)
(* unallocated too.  Running out of quota or identifiers never raises:     *)
(* the fill always has a next step until the grid is returned.             *)
(***************************************************************************)
\* the seat is reserved for batch b and holds no student
IsUnallocatedOf(seat, b) ==
    ~seat.is_broken /\ seat.batch = b /\ seat.roll_number = None

\* one iteration of the column-major loop body
ColumnMajorStep ==
    \/ PlaceBroken
    \/ PlaceGap
    \/ PlaceLimitReached
    \/ PlaceGlobalRoll
    \/ PlaceQueuedRoll
    \/ PlaceNoRoll

C22_AllocatedPrefix ==
    (cfg.batch_by_column /\ cfg.num_batches >= 1) =>
        /\ pc # "raised"
        /\ pc = "fill_cols" => ENABLED ColumnMajorStep
        /\ (pc \in {"fill_cols", "done"} /\ HasSeats) =>
              \A b \in 1..cfg.num_batches :
                  \A cell1, cell2 \in Cells(cfg.rows, cfg.cols) :
                      (/\ FilledBefore(cell1, cell2)
                       /\ IsUnallocatedOf(SeatAt(cell1[1], cell1[2]), b)
                       /\ ~SeatAt(cell2[1], cell2[2]).is_broken
                       /\ SeatAt(cell2[1], cell2[2]).batch = b)
                      => SeatAt(cell2[1], cell2[2]).roll_number = None

\* one batch over two columns with a quota of two: the first column is
\* seated, the second is left unallocated
C22_Witness ==
    /\ Done
    /\ cfg.batch_by_column
    /\ cfg.num_batches = 1
    /\ cfg.rows = 2
    /\ cfg.cols = 2
    /\ batch_limits[1] = 2
    /\ IsAllocated(SeatAt(0, 0))
    /\ IsAllocated(SeatAt(1, 0))
    /\ IsUnallocatedOf(SeatAt(0, 1), 1)
    /\ IsUnallocatedOf(SeatAt(1, 1), 1)

(***************************************************************************)
(* C23: in row-major mode (batch_by_column = false) generate always        *)
(* completes, for every rows, cols and num_batches >= 1: no step of the    *)
(* fill fails, the rows not yet built are never needed, and the grid       *)
(* returned is full, every non-broken seat (r, c) has batch                *)
(* ((r + c) mod N) + 1, and the identifiers of the non-broken seats        *)
(* increase by one from 1 in row-major scan order.                         *)
(***************************************************************************)
\* one iteration of the row-major loop body
RowMajorStep == RowPlaceBroken \/ RowPlaceSeat

\* the non-broken seats the row-major scan meets before (r, c)
ScannedBefore(r, c) ==
    {cell \in Cells(cfg.rows, cfg.cols) :
        /\ FilledBeforeRowMajor(cell, <<r, c>>)
        /\ cell \notin cfg.broken_seats}

C24_RowMajorQuota ==
    (Done /\ ~cfg.batch_by_column) =>
        \A b \in DOMAIN cfg.batch_student_counts :
            Cardinality(AllocatedCells(b)) <= cfg.batch_student_counts[b]

(***************************************************************************)
(* C25: in templated global serial mode with every batch templated, the    *)
(* serials of the allocated seats read in grid-fill order (columns         *)
(* ascending, rows top to bottom) are start_serial, start_serial + 1, ...  *)
(* with no gap and no repeat across batches; broken seats and unallocated  *)
(* seats consume no serial.                                                *)
(***************************************************************************)
\* every batch draws its serial from the shared counter
AllGlobalSerial ==
    /\ cfg.batch_by_column
    /\ cfg.num_batches >= 1
    /\ \A b \in 1..cfg.num_batches : UsesGlobalSerial(cfg, b)

\* the cells that hold a student, whatever the batch
AllAllocatedCells ==
    {cell \in Cells(cfg.rows, cfg.cols) : IsAllocated(SeatAt(cell[1], cell[2]))}

\* how many seats were allocated before the cell, in fill order
GlobalFillRank(cell) ==
    Cardinality({other \in AllAllocatedCells : FilledBefore(other, cell)})

\* the identifier of batch b that carries the given serial
IdentifierWithSerial(b, serial) ==
    Format(batch_template(cfg, b), Get(cfg.batch_prefixes, b, ""), cfg.year,
           SerialStr(serial, self_serial_width(cfg)))

C25_GlobalSerialOrder ==
    (Done /\ AllGlobalSerial) =>
        /\ \A cell \in AllAllocatedCells :
              SeatAt(cell[1], cell[2]).roll_number
                  = IdentifierWithSerial(SeatAt(cell[1], cell[2]).batch,
                                         cfg.start_serial + GlobalFillRank(cell))
        /\ next_roll = cfg.start_serial + Cardinality(AllAllocatedCells)

\* two batches share the counter around a broken seat
C25_Witness ==
    /\ Done
    /\ AllGlobalSerial
    /\ cfg.num_batches = 2
    /\ cfg.rows = 2
    /\ cfg.cols = 2
    /\ cfg.start_serial = 8
    /\ SeatAt(0, 0).roll_number = "R8"
    /\ SeatAt(1, 0).roll_number = "R9"
    /\ SeatAt(0, 1).is_broken
    /\ SeatAt(1, 1).roll_number = "R10"
    /\ SeatAt(1, 1).batch = 2

(***************************************************************************)
(* C26: in the formatted output the summary agrees with the per-seat       *)
(* records, for every grid and every broken-seat list, coordinates outside *)
(* the grid included: total students = number of records neither broken    *)
(* nor unallocated = sum of the per-batch student counts = count of A plus *)
(* count of B; broken-seat count = number of records flagged is_broken;    *)
(* every record is exactly one of broken, unallocated or allocated.        *)
(***************************************************************************)
Formatted == pc = "formatted"

\* the per-seat records of the output, as a set of positions
Records ==
    {rc \in (1..Len(web_data.seating)) \X (1..cfg.cols) :
        rc[2] <= Len(web_data.seating[rc[1]])}

RecordAt(rc) == web_data.seating[rc[1]][rc[2]]

\* record.get('is_unallocated')
RecordUnallocated(rec) ==
    "is_unallocated" \in DOMAIN rec /\ rec.is_unallocated

RecordAllocated(rec) == ~rec.is_broken /\ rec.roll_number # None

\* sum of dict.values()
RECURSIVE SumValues(_)
SumValues(dict) ==
    IF DOMAIN dict = {} THEN 0
    ELSE LET k == CHOOSE x \in DOMAIN dict : TRUE
         IN  dict[k] + SumValues([x \in DOMAIN dict \ {k} |-> dict[x]])

C26_SummaryAgrees ==
    Formatted =>
        LET summary == web_data.summary
            students == Cardinality({rc \in Records :
                            /\ ~RecordAt(rc).is_broken
                            /\ ~RecordUnallocated(RecordAt(rc))})
        IN  /\ summary.total_students = students
            /\ SumValues(summary.batch_distribution) = students
            /\ summary.paper_set_distribution["A"]
                  + summary.paper_set_distribution["B"] = students
            /\ summary.broken_seats_count
                  = Cardinality({rc \in Records : RecordAt(rc).is_broken})
            /\ \A rc \in Records :
                  Cardinality({kind \in {"broken", "unallocated", "allocated"} :
                      \/ kind = "broken" /\ RecordAt(rc).is_broken
                      \/ kind = "unallocated" /\ RecordUnallocated(RecordAt(rc))
                      \/ kind = "allocated" /\ RecordAllocated(RecordAt(rc))}) = 1

(***************************************************************************)
(* The services around the engine.  Each is a state machine of its own     *)
(* over its own variables; the engine is constructed and stays idle.       *)
(***************************************************************************)
EngineIdle ==
    /\ cfg = MakeConfig(1, 1, 1, DefaultLayout, TRUE, {}, EmptyDict, FALSE, PlainIds)
    /\ validation = NoValidation
    /\ web_data = <<>>
    /\ pc = "init"
    /\ run = 0
    /\ seating_plan = <<>>
    /\ current_row = <<>>
    /\ col = 0
    /\ row = 0
    /\ roll = 0
    /\ batch_limits = EmptyDict
    /\ batch_allocated = EmptyDict
    /\ batch_queues = EmptyDict
    /\ next_roll = 0
    /\ prev_plan = <<>>

(***************************************************************************)
(* api/blueprints/classrooms.py: a classroom is added, updated, and read   *)
(* back; reading converts block_width to a block_structure when none is    *)
(* stored.  block_structure = <<>> stands for NULL (and for the empty      *)
(* list, which the code treats alike).                                     *)
(***************************************************************************)
\* the loop of auto_convert_block_structure is followed this far
MaxIterations == MaxCols + 2

\* validate_block_structure(block_structure, cols), for a list argument
validate_block_structure(block_structure, cols) ==
    IF Len(block_structure) = 0
    THEN [is_valid |-> FALSE, error |-> "block_structure cannot be empty"]
    ELSE IF \E i \in 1..Len(block_structure) : block_structure[i] < 1
    THEN [is_valid |-> FALSE, error |-> "width must be a positive integer"]
    ELSE IF SumSeq(block_structure) # cols
    THEN [is_valid |-> FALSE, error |-> "widths do not sum to cols"]
    ELSE [is_valid |-> TRUE, error |-> None]

\* the widths a request may carry
RequestWidths == (-1)..MaxCols

\* the block_structure a request may carry: none, or a short list
RequestStructures ==
    {<<>>} \cup UNION {[1..k -> 0..MaxCols] : k \in 1..2}

\* the JSON body of POST /api/classrooms: block_width defaults to 2
AddRequests ==
    [complete : BOOLEAN, cols : 0..MaxCols, block_width : RequestWidths \cup {2},
     block_structure : RequestStructures]

\* add_classroom
AddClassroom ==
    /\ cpc = "empty"
    /\ \E data \in AddRequests :
          IF ~data.complete \/ data.cols = 0
          THEN \* if not all([name, rows, cols]): 400
               /\ cpc' = "rejected"
               /\ UNCHANGED classroom
          ELSE IF data.block_structure # <<>>
          THEN IF validate_block_structure(data.block_structure, data.cols).is_valid
               THEN /\ classroom' = [cols |-> data.cols,
                                     block_width |-> data.block_structure[1],
                                     block_structure |-> data.block_structure]
                    /\ cpc' = "stored"
               ELSE /\ cpc' = "rejected"
                    /\ UNCHANGED classroom
          ELSE /\ classroom' = [cols |-> data.cols,
                                block_width |-> data.block_width,
                                block_structure |-> <<>>]
               /\ cpc' = "stored"
    /\ UNCHANGED <<result_structure, remaining, engine_vars, db_vars, calls>>

\* the JSON body of PUT /api/classrooms/<id>: every field is optional
UpdateRequests ==
    [has_cols : BOOLEAN, cols : 0..MaxCols,
     has_block_width : BOOLEAN, block_width : {0, 1},
     has_block_structure : BOOLEAN, block_structure : {<<>>, <<1>>, <<1, 1>>}]

\* update_classroom
UpdateClassroom ==
    /\ cpc = "stored"
    /\ \E data \in UpdateRequests :
          LET target_cols == IF data.has_cols THEN data.cols ELSE classroom.cols
              with_cols == IF data.has_cols
                           THEN [classroom EXCEPT !.cols = data.cols] ELSE classroom
              with_width == IF data.has_block_width
                            THEN [with_cols EXCEPT !.block_width = data.block_width]
                            ELSE with_cols
          IN  IF ~data.has_block_structure
              THEN classroom' = with_width
              ELSE IF data.block_structure = <<>>
              THEN classroom' = [with_width EXCEPT !.block_structure = <<>>]
              ELSE IF validate_block_structure(data.block_structure,
                                               target_cols).is_valid
              THEN classroom' =
                       [with_width EXCEPT
                           !.block_structure = data.block_structure,
                           !.block_width = IF data.has_block_width
                                           THEN data.block_width
                                           ELSE data.block_structure[1]]
              ELSE UNCHANGED classroom
    /\ cpc' = "updated"
    /\ UNCHANGED <<result_structure, remaining, engine_vars, db_vars, calls>>

\* get_classrooms -> auto_convert_block_structure(dict(row)), up to the loop
AutoConvertBegin ==
    /\ cpc \in {"stored", "updated"}
    /\ IF classroom.block_structure # <<>>
       THEN /\ result_structure' = classroom.block_structure
            /\ remaining' = remaining
            /\ cpc' = "returned"
       ELSE /\ result_structure' = <<>>
            /\ remaining' = classroom.cols
            /\ cpc' = "converting"
    /\ UNCHANGED <<classroom, engine_vars, db_vars, calls>>

\* while remaining > 0: width = min(block_width, remaining); ...
AutoConvertLoop ==
    /\ cpc = "converting"
    /\ remaining > 0
    /\ Len(result_structure) < MaxIterations
    /\ LET width == Min(classroom.block_width, remaining)
       IN  /\ result_structure' = Append(result_structure, width)
           /\ remaining' = remaining - width
    /\ UNCHANGED <<classroom, cpc, engine_vars, db_vars, calls>>

\* the loop ends; return result
AutoConvertReturn ==
    /\ cpc = "converting"
    /\ remaining <= 0
    /\ cpc' = "returned"
    /\ UNCHANGED <<classroom, result_structure, remaining, engine_vars, db_vars, calls>>

ClassroomInit == EngineIdle /\ ClassroomIdle /\ DatabaseEmpty /\ calls = <<>>

ClassroomNext ==
    \/ AddClassroom
    \/ UpdateClassroom
    \/ AutoConvertBegin
    \/ AutoConvertLoop
    \/ AutoConvertReturn

ClassroomSpec == ClassroomInit /\ [][ClassroomNext]_vars

(***************************************************************************)
(* C27: for every stored classroom with integer cols >= 0 and any integer  *)
(* block_width (0 and negative values included) and no stored              *)
(* block_structure, auto_convert_block_structure terminates (every         *)
(* iteration appends a positive width, so there are at most cols of them)  *)
(* and the structure it returns is a list of positive widths summing to    *)
(* cols, which validate_block_structure accepts whenever cols >= 1.        *)
(***************************************************************************)
C27_AutoConvertTerminates ==
    classroom.block_structure = <<>> =>
        /\ cpc = "converting" =>
              /\ Len(result_structure) <= classroom.cols
              /\ \A i \in 1..Len(result_structure) : result_structure[i] >= 1
        /\ cpc = "returned" =>
              /\ \A i \in 1..Len(result_structure) : result_structure[i] >= 1
              /\ SumSeq(result_structure) = classroom.cols
              /\ classroom.cols >= 1 =>
                    validate_block_structure(result_structure,
                                             classroom.cols).is_valid

(***************************************************************************)
(* The database.  allocation_sessions[i] is the row with session_id = i    *)
(* and uploads[i] the row with id = i; allocations and allocation_history  *)
(* keep their rows in insertion order (ascending id).  user_id NULL is     *)
(* NoUser, session_id NULL is NoSession.  The students table is fixed:     *)
(* student s has enrollment s and belongs to upload UploadOf(s).           *)
(***************************************************************************)
NoUser == 0
NoSession == 0

Users == 1..2
Classrooms == 1..2
MaxUploads == 2
Students == 1..MaxStudents

UploadOf(s) == ((s - 1) % MaxUploads) + 1
BatchNameOf(s) == IF s % 2 = 1 THEN "B1" ELSE "B2"

\* SELECT ... FROM allocations WHERE session_id = ?
AllocationsOf(session_id) ==
    SelectSeq(allocations, LAMBDA a : a.session_id = session_id)

(***************************************************************************)
(* services/allocation_service.py and api/blueprints/allocations.py: the   *)
(* rooms of one session are saved, undone and reset.                       *)
(***************************************************************************)
\* the roll numbers of the seats of a seating matrix that are neither
\* broken nor unallocated, in row-major order; MaxStudents + 1 is the
\* roll number of nobody
SeatingData == UNION {[1..k -> 1..(MaxStudents + 1)] : k \in 0..2}

\* selected_batch_names: {} stands for None
BatchFilters == {{}, {"B1"}}

\* the student the SELECT of save_room_allocation finds: enrolled under the
\* roll number, in an upload of the session, not yet allocated in it
FindStudent(enrollment, session_id, allocs) ==
    {s \in Students :
        /\ s = enrollment
        /\ uploads[UploadOf(s)].session_id = session_id
        /\ ~\E i \in 1..Len(allocs) :
              allocs[i].session_id = session_id /\ allocs[i].student_id = s}

\* the loop over the seating matrix: the allocations table after the seats
RECURSIVE InsertSeats(_, _, _, _, _)
InsertSeats(seats, session_id, classroom_id, selected, allocs) ==
    IF seats = <<>> THEN allocs
    ELSE LET found == FindStudent(Head(seats), session_id, allocs)
             student == CHOOSE s \in found : TRUE
         IN  IF found # {} /\ (selected = {} \/ BatchNameOf(student) \in selected)
             THEN InsertSeats(Tail(seats), session_id, classroom_id, selected,
                              Append(allocs, [session_id |-> session_id,
                                              classroom_id |-> classroom_id,
                                              student_id |-> student]))
             ELSE InsertSeats(Tail(seats), session_id, classroom_id, selected, allocs)

\* COALESCE(MAX(step_number), 0) + 1
NextStepNumber(session_id) ==
    LET steps == {allocation_history[i].step_number :
                    i \in {k \in 1..Len(allocation_history) :
                              allocation_history[k].session_id = session_id}}
    IN  IF steps = {} THEN 1 ELSE (CHOOSE m \in steps : \A x \in steps : x <= m) + 1

\* AllocationService.save_room_allocation
SaveRoomAllocation ==
    /\ \E session_id \in DOMAIN allocation_sessions, classroom_id \in Classrooms,
          seats \in SeatingData, selected \in BatchFilters :
          /\ history_table => Len(allocation_history) < MaxSteps
          \* the stored counter is followed up to MaxStudents
          /\ allocation_sessions[session_id].allocated_count <= MaxStudents
          /\ IF allocation_sessions[session_id].status # "active"
             THEN UNCHANGED <<allocations, allocation_sessions, allocation_history>>
             ELSE LET after == InsertSeats(seats, session_id, classroom_id, selected,
                                           allocations)
                      allocated_students == Len(after) - Len(allocations)
                  IN  /\ allocations' = after
                      /\ allocation_sessions' =
                            [allocation_sessions EXCEPT
                                ![session_id].allocated_count = @ + allocated_students]
                      /\ allocation_history' =
                            IF history_table
                            THEN Append(allocation_history,
                                        [session_id |-> session_id,
                                         step_number |-> NextStepNumber(session_id),
                                         classroom_id |-> classroom_id,
                                         students_affected |-> allocated_students])
                            ELSE allocation_history
    /\ UNCHANGED <<uploads, history_table, calls, engine_vars, classroom_vars>>

\* the position in allocation_history of the last 'allocate' step of the
\* session (0: none, or no such table)
LastStep(session_id) ==
    LET own == {i \in 1..Len(allocation_history) :
                   allocation_history[i].session_id = session_id}
    IN  IF ~history_table \/ own = {} THEN 0
        ELSE CHOOSE i \in own :
                 \A j \in own : allocation_history[j].step_number
                                    <= allocation_history[i].step_number

\* the position in allocations of the session's row with the greatest id
LastAllocation(session_id) ==
    LET own == {i \in 1..Len(allocations) : allocations[i].session_id = session_id}
    IN  IF own = {} THEN 0 ELSE CHOOSE i \in own : \A j \in own : j <= i

\* AllocationService.undo_last_allocation
UndoLastAllocation ==
    /\ \E session_id \in DOMAIN allocation_sessions :
          LET history_id == LastStep(session_id)
              fallback == LastAllocation(session_id)
              target_classroom ==
                  IF history_id # 0 THEN allocation_history[history_id].classroom_id
                  ELSE IF fallback # 0 THEN allocations[fallback].classroom_id
                  ELSE 0
              deleted ==
                  Len(SelectSeq(allocations,
                        LAMBDA a : /\ a.session_id = session_id
                                   /\ a.classroom_id = target_classroom))
          IN  IF target_classroom = 0
              THEN \* "Nothing to undo"
                   UNCHANGED <<allocations, allocation_sessions, allocation_history>>
              ELSE /\ allocations' =
                        SelectSeq(allocations,
                            LAMBDA a : ~(/\ a.session_id = session_id
                                         /\ a.classroom_id = target_classroom))
                   /\ allocation_sessions' =
                        [allocation_sessions EXCEPT
                            ![session_id].allocated_count = Max(0, @ - deleted)]
                   /\ allocation_history' =
                        IF history_id # 0
                        THEN SubSeq(allocation_history, 1, history_id - 1)
                             \o SubSeq(allocation_history, history_id + 1,
                                       Len(allocation_history))
                        ELSE allocation_history
    /\ UNCHANGED <<uploads, history_table, calls, engine_vars, classroom_vars>>

\* _get_verified_session: the row exists and is unowned or owned by the caller
VerifiedSession(session_id, user_id) ==
    /\ session_id \in DOMAIN allocation_sessions
    /\ \/ allocation_sessions[session_id].user_id = NoUser
       \/ allocation_sessions[session_id].user_id = user_id

\* POST /reset-allocation
ResetAllocation ==
    /\ \E session_id \in DOMAIN allocation_sessions, user_id \in Users :
          IF ~VerifiedSession(session_id, user_id)
          THEN UNCHANGED <<allocations, allocation_sessions>>
          ELSE /\ allocations' =
                    SelectSeq(allocations, LAMBDA a : a.session_id # session_id)
               \* UPDATE ... SET allocated_count = 0
               \* WHERE session_id = ? AND user_id = ?
               /\ allocation_sessions' =
                    [allocation_sessions EXCEPT
                        ![session_id].allocated_count =
                            IF allocation_sessions[session_id].user_id = user_id
                            THEN 0 ELSE @]
    /\ UNCHANGED <<uploads, allocation_history, history_table, calls, engine_vars,
                   classroom_vars>>

\* one session, unowned or owned by user 1, holding every upload
AllocationInit ==
    /\ EngineIdle
    /\ ClassroomIdle
    /\ calls = <<>>
    /\ \E owner \in {NoUser, 1}, status \in {"active", "expired"} :
          allocation_sessions =
              <<[user_id |-> owner, status |-> status,
                 total_students |-> MaxStudents, allocated_count |-> 0]>>
    /\ uploads = [u \in 1..MaxUploads |-> [session_id |-> 1]]
    /\ allocations = <<>>
    /\ allocation_history = <<>>
    /\ history_table \in BOOLEAN

AllocationNext ==
    \/ SaveRoomAllocation
    \/ UndoLastAllocation
    \/ ResetAllocation

AllocationSpec == AllocationInit /\ [][AllocationNext]_vars

(***************************************************************************)
(* C28: after any sequence of save_room_allocation, undo_last_allocation   *)
(* and reset-allocation operations on a session, owned by a user or        *)
(* unowned, the session's stored allocated_count equals the number of rows *)
(* of the allocations table for that session.                              *)
(***************************************************************************)
C28_AllocatedCountMatches ==
    \A session_id \in DOMAIN allocation_sessions :
        allocation_sessions[session_id].allocated_count
            = Len(AllocationsOf(session_id))

(***************************************************************************)
(* services/session_service.py: start_or_resume_session adds uploads to    *)
(* the caller's active session, or creates a session for them.             *)
(***************************************************************************)
\* SELECT COUNT(*) FROM students s JOIN uploads u ... WHERE u.session_id = ?
StudentsOfSession(ups, session_id) ==
    Cardinality({s \in Students : ups[UploadOf(s)].session_id = session_id})

\* SELECT COUNT(*) FROM students WHERE upload_id IN (...)
StudentsOfUploads(upload_ids) ==
    Cardinality({s \in Students : UploadOf(s) \in upload_ids})

\* WHERE status = 'active' AND user_id = ?
ActiveSessionsOf(user_id) ==
    {i \in DOMAIN allocation_sessions :
        /\ allocation_sessions[i].status = "active"
        /\ allocation_sessions[i].user_id = user_id}

\* is_empty = (total or 0) == 0 and (allocated or 0) == 0
is_empty(existing) ==
    /\ allocation_sessions[existing].total_students = 0
    /\ allocation_sessions[existing].allocated_count = 0

\* upload_ids: a non-empty list of stored uploads
UploadIdLists == (SUBSET (1..MaxUploads)) \ {{}}

\* "Create new session": INSERT INTO allocation_sessions, then
\* UPDATE uploads SET session_id = ? WHERE id = ? for every upload
CreateNewSession(sessions, user_id, upload_ids) ==
    /\ allocation_sessions' =
          Append(sessions, [user_id |-> user_id, status |-> "active",
                            total_students |-> StudentsOfUploads(upload_ids),
                            allocated_count |-> 0])
    /\ uploads' = [u \in DOMAIN uploads |->
                      IF u \in upload_ids
                      THEN [uploads[u] EXCEPT !.session_id = Len(sessions) + 1]
                      ELSE uploads[u]]

\* existing and not force_new, and neither is_abandoned nor is_empty: the
\* uploads are added to the existing session
ResumeSession ==
    /\ \E user_id \in Users, upload_ids \in UploadIdLists :
          \E existing \in ActiveSessionsOf(user_id) :
              /\ ~is_empty(existing)
              /\ LET linked == [u \in DOMAIN uploads |->
                                  IF /\ u \in upload_ids
                                     /\ uploads[u].session_id \in {NoSession, existing}
                                  THEN [uploads[u] EXCEPT !.session_id = existing]
                                  ELSE uploads[u]]
                 IN  /\ uploads' = linked
                     /\ allocation_sessions' =
                           [allocation_sessions EXCEPT
                               ![existing].total_students =
                                   StudentsOfSession(linked, existing),
                               ![existing].allocated_count =
                                   Len(AllocationsOf(existing)),
                               ![existing].user_id =
                                   IF @ = NoUser THEN user_id ELSE @]
    /\ UNCHANGED <<allocations, allocation_history, history_table, calls,
                   engine_vars, classroom_vars>>

\* the active session is abandoned or empty: it is expired and a new
\* session is created
ExpireAndCreateSession ==
    /\ Len(allocation_sessions) < MaxSessions
    /\ \E user_id \in Users, upload_ids \in UploadIdLists, is_abandoned \in BOOLEAN :
          \E existing \in ActiveSessionsOf(user_id) :
              /\ is_abandoned \/ is_empty(existing)
              /\ CreateNewSession(
                     [allocation_sessions EXCEPT ![existing].status = "expired"],
                     user_id, upload_ids)
    /\ UNCHANGED <<allocations, allocation_history, history_table, calls,
                   engine_vars, classroom_vars>>

\* no active session, or force_new: a new session is created
CreateSession ==
    /\ Len(allocation_sessions) < MaxSessions
    /\ \E user_id \in Users, upload_ids \in UploadIdLists, force_new \in BOOLEAN :
          /\ ActiveSessionsOf(user_id) = {} \/ force_new
          /\ CreateNewSession(allocation_sessions, user_id, upload_ids)
    /\ UNCHANGED <<allocations, allocation_history, history_table, calls,
                   engine_vars, classroom_vars>>

\* up to two sessions of the two users, and uploads linked to them or to none
SessionInit ==
    /\ EngineIdle
    /\ ClassroomIdle
    /\ calls = <<>>
    /\ allocations = <<>>
    /\ allocation_history = <<>>
    /\ history_table = FALSE
    /\ \E n \in 0..2 :
          /\ uploads \in [1..MaxUploads -> [session_id : 0..n]]
          /\ \E owners \in [1..n -> Users], statuses \in [1..n -> {"active", "expired"}] :
                allocation_sessions =
                    [i \in 1..n |->
                        [user_id |-> owners[i], status |-> statuses[i],
                         total_students |-> StudentsOfSession(uploads, i),
                         allocated_count |-> 0]]

SessionNext ==
    \/ ResumeSession
    \/ ExpireAndCreateSession
    \/ CreateSession

SessionSpec == SessionInit /\ [][SessionNext]_vars

(***************************************************************************)
(* C29: start_or_resume_session never changes the session link of an       *)
(* upload that is already linked to a different session: on the resume     *)
(* path and on the create-new path alike, an upload whose session_id is    *)
(* non-null keeps it, so no session loses uploads through the call.        *)
(***************************************************************************)
C29_LinkedUploadsKept ==
    [][\A u \in DOMAIN uploads :
          uploads[u].session_id # NoSession =>
              uploads'[u].session_id = uploads[u].session_id]_vars

(***************************************************************************)
(* database/queries/session_queries.py: get_or_create_active_session, run  *)
(* by several requests at once.  Each call is a SELECT followed, when no   *)
(* row was found and auto_create is set, by an INSERT and a commit; no     *)
(* transaction or lock spans the two statements.                           *)
(***************************************************************************)
Callers == 1..MaxCallers

\* SELECT ... WHERE s.user_id = ? AND s.status = 'active' ... LIMIT 1
SelectActiveSession(c) ==
    /\ calls[c].pc = "select"
    /\ IF ActiveSessionsOf(calls[c].user_id) # {}
       THEN \E session \in ActiveSessionsOf(calls[c].user_id) :
                calls' = [calls EXCEPT ![c].pc = "done", ![c].returned = session]
       ELSE IF ~calls[c].auto_create
            THEN calls' = [calls EXCEPT ![c].pc = "done", ![c].returned = NoSession]
            ELSE calls' = [calls EXCEPT ![c].pc = "insert"]
    /\ UNCHANGED <<db_vars, engine_vars, classroom_vars>>

\* INSERT INTO allocation_sessions (..., status, ...) VALUES (..., 'active', ...)
InsertActiveSession(c) ==
    /\ calls[c].pc = "insert"
    /\ allocation_sessions' =
          Append(allocation_sessions,
                 [user_id |-> calls[c].user_id, status |-> "active",
                  total_students |-> 0, allocated_count |-> 0])
    /\ calls' = [calls EXCEPT ![c].pc = "done",
                              ![c].returned = Len(allocation_sessions) + 1]
    /\ UNCHANGED <<uploads, allocations, allocation_history, history_table,
                   engine_vars, classroom_vars>>

\* at most one stored session, and the calls about to start
ActiveSessionInit ==
    /\ EngineIdle
    /\ ClassroomIdle
    /\ uploads = <<>>
    /\ allocations = <<>>
    /\ allocation_history = <<>>
    /\ history_table = FALSE
    /\ \E n \in 0..1, owner \in Users, status \in {"active", "expired"} :
          allocation_sessions =
              [i \in 1..n |-> [user_id |-> owner, status |-> status,
                               total_students |-> 0, allocated_count |-> 0]]
    /\ \E users \in [Callers -> Users], auto \in [Callers -> BOOLEAN] :
          calls = [c \in Callers |->
                      [pc |-> "select", user_id |-> users[c],
                       auto_create |-> auto[c], returned |-> NoSession]]

ActiveSessionNext ==
    \E c \in Callers :
        \/ SelectActiveSession(c)
        \/ InsertActiveSession(c)

ActiveSessionSpec == ActiveSessionInit /\ [][ActiveSessionNext]_vars

(***************************************************************************)
(* C30: get_or_create_active_session never gives a user a second active    *)
(* session: no user ever has more than one, and once every call has        *)
(* returned, a user for whom a call with auto_create was made has exactly  *)
(* one, whatever the interleaving of the calls.                            *)
(***************************************************************************)
C30_SingleActiveSession ==
    \A u \in Users :
        /\ Cardinality(ActiveSessionsOf(u)) <= 1
        /\ ( /\ \A c \in Callers : calls[c].pc = "done"
             /\ \E c \in Callers : calls[c].user_id = u /\ calls[c].auto_create )
               => Cardinality(ActiveSessionsOf(u)) = 1

====
